---- MODULE Spec2Model ----
(***************************************************************************)
(* Verification model of the WarpX time-advance core.                      *)
(*                                                                         *)
(*   Part I    CoarsenIO::Coarsen / CoarsenIO::Loop (Utils/CoarsenIO.cpp)  *)
(*             in a two-dimensional (XZ) build.                            *)
(*   Part II   per-level time-step sequence of the orchestrator.           *)
(*   Part III  charge deposition by concurrent threads.                    *)
(*                                                                         *)
(* Index vectors (amrex::IntVect) are pairs <<x, z>>; axis 2 is the last   *)
(* axis of the build.  Field values are integers that are multiples of 4,  *)
(* so that the weights 1/numx*1/numz of the interpolation stencil          *)
(* (numx, numz in {1,2}) are applied without rounding, as they are for     *)
(* binary floating point.                                                  *)
(***************************************************************************)
EXTENDS Integers, Sequences, FiniteSets, TLC

(***************************************************************************)
(* Bounds of the model.                                                    *)
(***************************************************************************)
\* Half the number of fine cells along x; also the number of fine cells along z.
HalfLen == 2
\* Largest coarsening ratio per axis.
MaxRatio == 2
\* Largest number of destination guard cells a call asks to fill.
MaxNGrow == 1
\* Largest number of guard cells the source is allocated with, per axis.
MaxGuard == 1
\* Number of components of the source and destination MultiFabs.
NComp == 2
\* Largest number of successive Coarsen calls in SpecSeq.
MaxCalls == 2
\* Finest refinement level of the orchestrator runs.
MaxLevel == 2
\* Largest subcycling ratio between a level and its parent.
MaxSub == 2
\* Boxes a kernel runs over.
NBoxes == 2
\* Coarse time steps of an orchestrator run.
MaxSteps == 2
\* Threads that deposit.
NThreads == 2
\* Particle tiles.
NTiles == 2
\* Particles of the species.
NParticles == 3
\* Nodes of the mesh along the deposition axis.
NNodes == 2
\* Largest momentum component of the pushed particle, in units of c.
MaxU == 2
\* Largest time step of a push, in units of DtUnit.
MaxDt == 1
\* Pushes applied to the particle.
MaxPush == 2
\* Largest time step of the spectral solver.
MaxSolverDt == 2
\* Largest initial value of a spectral field.
MaxField == 1
\* Field advances of a solver run.
MaxAdvances == 3
MaxDomLen == 4
MaxProcs == 3
MantissaBits == 5
FractionBits == 2
MaxDtUnits == 6
MaxMaxStep == 7
MaxStopUnits == 48
MaxCompute == 2
\* Lab-frame snapshots of the back-transformed diagnostics.
NSnapshots == 2
\* z-slices a buffer holds (m_buffer_size).
BufferSize == 2
\* Last time step of a run with back-transformed diagnostics.
MaxBTDSteps == 2
\* Largest number of particles one time step adds to a particle buffer.
MaxNewParticles == 1
\* Largest number of AddRealComp and AddIntComp calls on a container.
MaxAdds == 4

Axes == 1..2

(***************************************************************************)
(* amrex::IntVect                                                          *)
(***************************************************************************)
IVAll(c) == <<c, c>>
IVAdd(a, b) == <<a[1] + b[1], a[2] + b[2]>>
IVSub(a, b) == <<a[1] - b[1], a[2] - b[2]>>
IVMul(a, b) == <<a[1] * b[1], a[2] * b[2]>>

\* IntVect::allGE, allGT: every component.
AllGE(a, b) == \A d \in Axes : a[d] >= b[d]
AllGT(a, b) == \A d \in Axes : a[d] > b[d]

\* IntVect::operator< : lexicographic, the last axis most significant.
LexLT(a, b) == (a[2] < b[2]) \/ ((a[2] = b[2]) /\ (a[1] < b[1]))

\* Mutation of IVGreater: "greater on every axis".
IVGreaterAll(a, b) == AllGT(a, b)

\* IntVect::operator> as used in `crse_ratio > IntVect(1)`.
IVGreater(a, b) == LexLT(b, a)

\* IntVect::operator>= as used in `mf_src.nGrowVect() >= stag_dst-stag_src+ngrowvect`.
IVGreaterEq(a, b) == ~LexLT(a, b)

(***************************************************************************)
(* amrex::Box: [lo, hi, typ]; typ[d] = 0 cell-centered, 1 nodal along d.   *)
(***************************************************************************)
Box(lo, hi, typ) == [lo |-> lo, hi |-> hi, typ |-> typ]

BoxSize(b) == <<b.hi[1] - b.lo[1] + 1, b.hi[2] - b.lo[2] + 1>>

\* Box::convert: the big end moves by the change of index type.
BoxConvert(b, typ) ==
    Box(b.lo, IVAdd(b.hi, IVSub(typ, b.typ)), typ)

\* Coarsening of one index (amrex::coarsen): floor division.
CoarsenIdx(i, r) == IF i < 0 THEN 0 - ((0 - i - 1) \div r) - 1 ELSE i \div r

\* Box::coarsen: nodal big ends round up.
BoxCoarsen(b, r) ==
    LET lo == <<CoarsenIdx(b.lo[1], r[1]), CoarsenIdx(b.lo[2], r[2])>>
        off(d) == IF b.typ[d] = 1 /\ (b.hi[d] % r[d]) # 0 THEN 1 ELSE 0
        hi == <<CoarsenIdx(b.hi[1], r[1]) + off(1), CoarsenIdx(b.hi[2], r[2]) + off(2)>>
    IN  Box(lo, hi, b.typ)

\* Box::refine.
BoxRefine(b, r) ==
    LET shft == IVSub(IVAll(1), b.typ)
    IN  Box(IVMul(b.lo, r), IVSub(IVMul(IVAdd(b.hi, shft), r), shft), b.typ)

\* Box::coarsenable(refrat, min_width = 1).
BoxCoarsenable(b, r) ==
    /\ AllGE(BoxSize(b), r)
    /\ BoxRefine(BoxCoarsen(b, r), r) = b

BoxGrow(b, g) == Box(IVSub(b.lo, g), IVAdd(b.hi, g), b.typ)

BoxPts(b) == (b.lo[1]..b.hi[1]) \X (b.lo[2]..b.hi[2])

InBox(p, b) == /\ b.lo[1] <= p[1] /\ p[1] <= b.hi[1]
               /\ b.lo[2] <= p[2] /\ p[2] <= b.hi[2]

(***************************************************************************)
(* amrex::BoxArray: a sequence of boxes of one index type.                 *)
(***************************************************************************)
BAConvert(ba, typ) == [k \in DOMAIN ba |-> BoxConvert(ba[k], typ)]
BACoarsen(ba, r) == [k \in DOMAIN ba |-> BoxCoarsen(ba[k], r)]

\* Mutation of BACoarsenable: every box array is accepted.
BACoarsenableAlways(ba, r) == TRUE

\* BoxArray::coarsenable.
BACoarsenable(ba, r) ==
    /\ Len(ba) > 0
    /\ \A k \in DOMAIN ba : BoxCoarsenable(ba[k], r)

(***************************************************************************)
(* State.                                                                  *)
(*                                                                         *)
(* Part I: one source MultiFab (fine level), one destination MultiFab      *)
(* (coarse level), the temporary of the copy path, and the position of the *)
(* running CoarsenIO::Coarsen call.                                        *)
(***************************************************************************)
VARIABLES
    mf_src,     \* [ba, dm, ngrow]: box array, distribution map, guard cells
    mf_dst,     \* [ba, dm, ngrow, data]
    mf_tmp,     \* [ba, dm, ngrow, data] of the temporary; ba = <<>> when absent
    crse_cfg,   \* coarsening ratio between the two levels
    call,       \* arguments of the running / last call
    pc,         \* "idle", "loop", "copy", "done", "abort", "crash"
    path,       \* "none", "direct", "tmp"
    tilesDone,  \* tiles of CoarsenIO::Loop already processed
    msg,        \* message of the failed assertion, "" if none
    ub,         \* out-of-allocation accesses performed: subset of {"read","write"}
    dst_before, \* destination data when the running call started
    stored,     \* history: per destination cell, [cnt, sum, last] of the values
                \* Coarsen calls have stored in it (sum starts at the initial value)
    ncalls,     \* completed calls
    maxCalls    \* calls the run makes

(***************************************************************************)
(* Part II: the orchestrator's position in the per-level sequence of a     *)
(* time step, and the kernel it has launched.                              *)
(***************************************************************************)
VARIABLES
    finest_level, \* finest refinement level; levels are 0..finest_level
    nsubsteps,    \* subcycling: iterations of a level per iteration of its parent
    istep,        \* completed (coarse) time steps
    lev,          \* level the orchestrator is at
    iter,         \* iteration of this level within the coarse step, from 1
    step,         \* index in Steps of the step the orchestrator is at
    running,      \* a kernel of this step is launched and not yet waited on
    boxesDone,    \* boxes of the launched kernel that have finished
    coarsened     \* per level: the coarsening of the finer sources into it, for
                  \* its present iteration: "none", "pending", "done"

(***************************************************************************)
(* Part III: charge deposition of one species on one level, by threads     *)
(* that take particle tiles.                                               *)
(***************************************************************************)
VARIABLES
    deposit_mode, \* "buffers" (per-thread buffers, merged) or "atomic"
    xp,           \* particle positions, in half cells
    rho,          \* the charge density, per node
    local_rho,    \* per thread: its buffer, per node
    tilesLeft,    \* particle tiles no thread has taken yet
    tpc,          \* per thread: "idle", "reset", "deposit", "merge"
    cur_tile,     \* per thread: the tile it processes
    ip,           \* per thread: index in the tile of the next particle
    inode,        \* per thread: index of the next node (of the stencil, of the merge)
    done_by,      \* per tile: the thread that processed it, 0 if none yet
    nox,          \* order of the shape function
    charge,       \* charge q of the species
    nthreads      \* threads of the parallel region (1 in a serial build)

(***************************************************************************)
(* Part IV: one particle and the position pushes applied to it.            *)
(***************************************************************************)
VARIABLES
    dim,          \* the build: "1D_Z", "2D_XZ", "RZ" or "3D"
    part,         \* the particle: [x, y, z, ux, uy, uz]
    part0,        \* the particle before any push
    part_prev,    \* the particle before the last push
    last_dt,      \* dt of the last push
    npush         \* pushes applied

(***************************************************************************)
(* Part V: one level's spectral solver (PsatdAlgorithmRZ) and its fields.  *)
(***************************************************************************)
VARIABLES
    sim_dt,       \* time step of the level
    sim_order,    \* order of the spectral stencil (norder_z)
    solver,       \* the instance: [m_dt, norder_z, coefficients_initialized, coef]
    fields,       \* the fields in spectral space, one mode: [E, B]
    fields_prev,  \* the fields before the last advance
    applied,      \* the coefficients the last advance applied
    last_op,      \* "none", "construct", "push"
    nadv,         \* advances made
    ninst         \* advances made on the present instance

(***************************************************************************)
(* Part VI: WarpX::InitData and the MultiFabs of the levels.               *)
(***************************************************************************)
VARIABLES
    restart_chkfile,         \* "" on a fresh start, else the checkpoint to restart from
    fft_do_time_averaging,
    init_opts,               \* optional steps the input enables
    fabs,                    \* allocated MultiFabs by tag: [vc, gc], vc the valid
                             \* cells of each box, gc the guard cells
    init_pc,                 \* "start", "running", "aborted", "done"
    init_steps,              \* steps of InitData (and after) executed so far
    abort_msgs               \* messages of amrex::Abort, each a sequence of tokens

(***************************************************************************)
(* Part VII: WarpX::PostProcessBaseGrids.                                  *)
(***************************************************************************)
VARIABLES
    dom,        \* Geom(0).Domain()
    numprocs,   \* blocks per axis asked for, 0 on every axis if none
    ba0,        \* the base grids, a sequence of boxes
    grids_pc    \* "start", "done"

(***************************************************************************)
(* Part VIII: WarpX::ComputeMaxStep.                                       *)
(***************************************************************************)
VARIABLES
    clock,       \* [max_step, stop_time, t_new, dt, istep]; the reals in units of
                 \* 2^-FractionBits
    clock_prev,  \* clock before the last call of ComputeMaxStep
    ncompute     \* calls of ComputeMaxStep so far

(***************************************************************************)
(* Part IX: BTDiagnostics, the buffers and flags of the lab-frame          *)
(* snapshots, one output species.                                          *)
(***************************************************************************)
VARIABLES
    m_snapshot_full,                   \* per snapshot, 0 or 1
    m_lastValidZSlice,                 \* per snapshot, 0 or 1
    m_buffer_counter,                  \* per snapshot, z-slices in the buffer
    m_buffer_flush_counter,            \* per snapshot, flushes so far
    m_totalParticles_in_buffer,        \* per snapshot
    m_totalParticles_flushed_already,  \* per snapshot
    m_particles_buffer,                \* per snapshot, the particles buffered
    flush_log,                         \* per snapshot, the flushes in order
    btd                                \* [step, force_flush, pc, i_buffer, species]

(***************************************************************************)
(* Part X: the runtime components of a WarpXParticleContainer.             *)
(***************************************************************************)
VARIABLES
    pcont,       \* [particle_comps, particle_icomps, particle_runtime_comps,
                 \*  particle_runtime_icomps, num_runtime_real, num_runtime_int,
                 \*  messages]
    pcont_prev,  \* pcont before the last call
    last_add,    \* the last call: [op, name, known]
    nadds        \* calls so far

varsCoarsen == <<mf_src, mf_dst, mf_tmp, crse_cfg, call, pc, path, tilesDone, msg, ub,
                 dst_before, stored, ncalls, maxCalls>>
varsStep == <<finest_level, nsubsteps, istep, lev, iter, step, running, boxesDone,
              coarsened>>
varsDeposit == <<deposit_mode, xp, rho, local_rho, tilesLeft, tpc, cur_tile, ip, inode,
                 done_by, nox, charge, nthreads>>
varsPush == <<dim, part, part0, part_prev, last_dt, npush>>
\* The variables of parts IV and later.
varsPsatd == <<sim_dt, sim_order, solver, fields, fields_prev, applied, last_op, nadv,
               ninst>>
varsInitData == <<restart_chkfile, fft_do_time_averaging, init_opts, fabs, init_pc,
                  init_steps, abort_msgs>>
varsGrids == <<dom, numprocs, ba0, grids_pc>>
\* The variables of parts I to VI, and those of parts VII and later.
varsEarly == <<varsCoarsen, varsStep, varsDeposit, varsPush, varsPsatd, varsInitData>>
varsMaxStep == <<clock, clock_prev, ncompute>>
varsBTD == <<m_snapshot_full, m_lastValidZSlice, m_buffer_counter, m_buffer_flush_counter,
             m_totalParticles_in_buffer, m_totalParticles_flushed_already,
             m_particles_buffer, flush_log, btd>>
varsContainer == <<pcont, pcont_prev, last_add, nadds>>
varsLate == <<varsGrids, varsMaxStep, varsBTD, varsContainer>>
varsMore == <<varsPush, varsPsatd, varsInitData, varsLate>>
vars == <<varsCoarsen, varsStep, varsDeposit, varsMore>>

\* The orchestrator and the deposition at rest (runs of the other parts).
IdleStep ==
    /\ finest_level = 0 /\ nsubsteps = 1 /\ istep = 0 /\ lev = 0 /\ iter = 1
    /\ step = 1 /\ running = FALSE /\ boxesDone = {} /\ coarsened = <<>>

IdlePush ==
    /\ dim = "3D" /\ part = <<>> /\ part0 = <<>> /\ part_prev = <<>> /\ last_dt = 0 /\ npush = 0

\* Parts IV and later at rest.
IdlePsatd ==
    /\ sim_dt = 0 /\ sim_order = 0 /\ solver = <<>> /\ fields = <<>> /\ fields_prev = <<>>
    /\ applied = <<>> /\ last_op = "none" /\ nadv = 0 /\ ninst = 0

IdleInitData ==
    /\ restart_chkfile = "" /\ fft_do_time_averaging = FALSE /\ init_opts = {}
    /\ fabs = <<>> /\ init_pc = "start" /\ init_steps = <<>> /\ abort_msgs = <<>>

IdleGrids == dom = <<>> /\ numprocs = <<>> /\ ba0 = <<>> /\ grids_pc = "start"

\* Parts VII and later at rest.
IdleMaxStep == clock = <<>> /\ clock_prev = <<>> /\ ncompute = 0

IdleBTD ==
    /\ m_snapshot_full = <<>> /\ m_lastValidZSlice = <<>> /\ m_buffer_counter = <<>>
    /\ m_buffer_flush_counter = <<>> /\ m_totalParticles_in_buffer = <<>>
    /\ m_totalParticles_flushed_already = <<>> /\ m_particles_buffer = <<>>
    /\ flush_log = <<>> /\ btd = <<>>

IdleContainer == pcont = <<>> /\ pcont_prev = <<>> /\ last_add = <<>> /\ nadds = 0

IdleLate == IdleGrids /\ IdleMaxStep /\ IdleBTD /\ IdleContainer

IdleMore == IdlePush /\ IdlePsatd /\ IdleInitData /\ IdleLate

IdleDeposit ==
    /\ deposit_mode = "atomic" /\ xp = <<>> /\ rho = <<>> /\ local_rho = <<>>
    /\ tilesLeft = {} /\ tpc = <<>> /\ cur_tile = <<>> /\ ip = <<>> /\ inode = <<>>
    /\ done_by = <<>> /\ nox = 1 /\ charge = 1 /\ nthreads = 0

Comps == 0..(NComp - 1)

MsgGuardFill == "option of filling guard cells of destination MultiFab with coarsening not supported for this interpolation"
MsgSrcGuard == "source fine MultiFab does not have enough guard cells for this interpolation"
MsgNotCoarsenable == "source MultiFab converted to staggering of destination MultiFab is not coarsenable"

(***************************************************************************)
(* Field data.  A source field is a function of the global index (its      *)
(* guard cells agree with the neighbouring valid cells, as after           *)
(* FillBoundary): "const" holds ConstVal everywhere, "ramp" a value that   *)
(* tells cells and components apart.                                       *)
(***************************************************************************)
Sources == {"const", "ramp"}

ConstVal(n) == 4
RampVal(q, n) == 4 * ((q[1] + 5) + 16 * (q[2] + 5) + 256 * n)
SrcVal(kind, q, n) == IF kind = "const" THEN ConstVal(n) ELSE RampVal(q, n)

\* What an out-of-allocation read may return.
Junk == {0, 8}

\* Contents of the destination before the first call (never a multiple of 4).
DstInitVal(n) == 2 * n + 1
\* Contents of freshly allocated memory.
Uninit == 0 - 1

AllocBox(mf, k) == BoxGrow(mf.ba[k], mf.ngrow)

\* MultiFab(ba, dm, ncomp, ngrow): one FArrayBox per box, over the box grown by
\* the guard cells, every value set to val[n].
MultiFab(ba, dm, ncomp, ngrow, val) ==
    [ba |-> ba, dm |-> dm, ncomp |-> ncomp, ngrow |-> ngrow,
     data |-> [k \in DOMAIN ba |->
                [e \in BoxPts(BoxGrow(ba[k], ngrow)) \X (0..(ncomp - 1)) |-> val[e[2]]]]]

NoTmp == [ba |-> <<>>, dm |-> <<>>, ncomp |-> 0, ngrow |-> IVAll(0), data |-> <<>>]

(***************************************************************************)
(* CoarsenIO::Interp (Utils/CoarsenIO.H): average of the np[0]*np[1]       *)
(* source points that enclose destination point p, each with weight        *)
(* 1/(np[0]*np[1]).                                                        *)
(***************************************************************************)
Abs(x) == IF x < 0 THEN 0 - x ELSE x

InterpNp(sf, sc, cr) == IF cr = 1 THEN 1 + Abs(sf - sc) ELSE 2 - sf

InterpIdxMin(sf, sc, cr, ic) ==
    IF cr = 1 THEN ic - sc * (1 - sf)
    ELSE ic * cr + (cr \div 2) * (1 - sc) - (1 - sf)

\* Source points read for destination point p.
Stencil(sf, sc, cr, p) ==
    { <<InterpIdxMin(sf[1], sc[1], cr[1], p[1]) + a,
        InterpIdxMin(sf[2], sc[2], cr[2], p[2]) + b>> :
        a \in 0..(InterpNp(sf[1], sc[1], cr[1]) - 1),
        b \in 0..(InterpNp(sf[2], sc[2], cr[2]) - 1) }

RECURSIVE SumOver(_, _)
SumOver(S, f) ==
    IF S = {} THEN 0
    ELSE LET q == CHOOSE x \in S : TRUE IN f[q] + SumOver(S \ {q}, f)

\* arr: the source values at the stencil points (one component).
Interp(arr, sf, sc, cr, p) ==
    LET S == Stencil(sf, sc, cr, p)
    IN  SumOver(S, arr) \div (InterpNp(sf[1], sc[1], cr[1]) * InterpNp(sf[2], sc[2], cr[2]))

(***************************************************************************)
(* Layouts.  The fine level is two boxes side by side along x ("two") or   *)
(* one box that starts at an odd cell ("odd").  The destination has the    *)
(* coarsened box array of the source with the same distribution ("same"),  *)
(* the same boxes on other ranks ("dm"), or is the one box of the parent   *)
(* level ("parent").                                                       *)
(***************************************************************************)
Cell == IVAll(0)
Stags == {0, 1} \X {0, 1}

FineBA(layout) ==
    IF layout = "two"
    THEN << Box(<<0, 0>>, <<HalfLen - 1, HalfLen - 1>>, Cell),
            Box(<<HalfLen, 0>>, <<2 * HalfLen - 1, HalfLen - 1>>, Cell) >>
    ELSE << Box(<<1, 0>>, <<2 * HalfLen - 1, HalfLen - 1>>, Cell) >>

ParentBA == << Box(<<0, 0>>, <<2 * HalfLen - 1, HalfLen - 1>>, Cell) >>

IxType(mf) == mf.ba[1].typ

InitCoarsen(calls) ==
    \E stagSrc \in Stags, stagDst \in Stags,
       srcGrow \in (0..MaxGuard) \X (0..MaxGuard),
       dstGrow \in 0..MaxNGrow,
       ratio \in (1..MaxRatio) \X (1..MaxRatio),
       srcLayout \in {"two", "odd"},
       dstLayout \in {"same", "dm", "parent"} :
        LET sba == BAConvert(FineBA(srcLayout), stagSrc)
            dba == IF dstLayout = "parent"
                   THEN BAConvert(ParentBA, stagDst)
                   ELSE BACoarsen(BAConvert(FineBA(srcLayout), stagDst), ratio)
        IN  /\ mf_src = [ba |-> sba, dm |-> [k \in DOMAIN sba |-> 0], ngrow |-> srcGrow]
            /\ mf_dst = MultiFab(dba, [k \in DOMAIN dba |-> IF dstLayout = "dm" THEN 1 ELSE 0],
                                 NComp, IVAll(dstGrow), [n \in Comps |-> DstInitVal(n)])
            /\ crse_cfg = ratio
    /\ mf_tmp = NoTmp
    /\ call = [kind |-> "const", dcomp |-> 0, scomp |-> 0, ncomp |-> 0, ngrow |-> 0]
    /\ pc = "idle"
    /\ path = "none"
    /\ tilesDone = {}
    /\ msg = ""
    /\ ub = {}
    /\ dst_before = mf_dst.data
    /\ stored = [m \in DOMAIN mf_dst.data |->
                   [e \in DOMAIN mf_dst.data[m] |->
                       [cnt |-> 0, sum |-> mf_dst.data[m][e], last |-> mf_dst.data[m][e]]]]
    /\ ncalls = 0
    /\ maxCalls = calls

\* CoarsenIO at rest (runs of the other parts).
IdleCoarsen ==
    /\ mf_src = NoTmp /\ mf_dst = NoTmp /\ mf_tmp = NoTmp /\ crse_cfg = IVAll(1)
    /\ call = <<>> /\ pc = "idle" /\ path = "none" /\ tilesDone = {} /\ msg = ""
    /\ ub = {} /\ dst_before = <<>> /\ stored = <<>> /\ ncalls = 0 /\ maxCalls = 0

(***************************************************************************)
(* CoarsenIO::Loop                                                         *)
(***************************************************************************)
\* The two assertions at the head of Loop: the message of the one that fails, or "".
LoopAssert(stag_dst, stag_src, src_ngrow, ngrowvect, crse_ratio) ==
    IF IVGreater(crse_ratio, IVAll(1)) /\ ngrowvect # IVAll(0)
    THEN MsgGuardFill
    ELSE IF ~IVGreaterEq(src_ngrow, IVAdd(IVSub(stag_dst, stag_src), ngrowvect))
         THEN MsgSrcGuard
         ELSE ""

\* The destination of Loop: mf_dst itself or the temporary.
LoopDst == IF path = "direct" THEN mf_dst ELSE mf_tmp

\* mfi.growntilebox(ngrowvect): one tile per box.
GrownTileBox(ba, k, ngrow) == BoxGrow(ba[k], IVAll(ngrow))

\* arr_src(ii,jj,kk,comp): junk when outside the FArrayBox of the source.
SrcRead(kind, k, q, n, junk) ==
    IF InBox(q, AllocBox(mf_src, k)) THEN SrcVal(kind, q, n) ELSE junk

\* Staggering of the destination of Loop (the temporary has the destination's).
StagDst == IxType(mf_dst)
StagSrc == IxType(mf_src)

ReadsOutside(ba, k, ngrow) ==
    \E p \in BoxPts(GrownTileBox(ba, k, ngrow)) :
        \E q \in Stencil(StagSrc, StagDst, crse_cfg, p) :
            ~InBox(q, AllocBox(mf_src, k))

WritesOutside(mf, k, ngrow) ==
    \E p \in BoxPts(GrownTileBox(mf.ba, k, ngrow)) : ~InBox(p, AllocBox(mf, k))

\* The value the kernel stores in arr_dst(i,j,k,n+dcomp) of box k.
LoopCell(k, p, n, junk) ==
    LET arr == [q \in Stencil(StagSrc, StagDst, crse_cfg, p) |->
                   SrcRead(call.kind, k, q, n + call.scomp, junk)]
    IN  Interp(arr, StagSrc, StagDst, crse_cfg, p)

\* Entries of the FArrayBox of box k that the ParallelFor over its tile stores to.
LoopWrites(mf, k, dcomp, e) ==
    /\ InBox(e[1], GrownTileBox(mf.ba, k, call.ngrow))
    /\ (e[2] - dcomp) \in 0..(call.ncomp - 1)

\* Array4::operator(): the position of (p, n) in the memory of an FArrayBox
\* over box b.  No bounds are checked: an index outside b along x that stays
\* inside the array is the position of another entry.
FabOffset(b, p, n) ==
    (p[1] - b.lo[1]) + (p[2] - b.lo[2]) * BoxSize(b)[1] + n * BoxSize(b)[1] * BoxSize(b)[2]

\* The iterations <<p, n>> over tile box bx whose store into the FArrayBox
\* over box b lands at position o.
LandsAt(b, bx, dcomp, o) ==
    {w \in BoxPts(bx) \X (0..(call.ncomp - 1)) : FabOffset(b, w[1], w[2] + dcomp) = o}

\* The iterations <<p, n>> of the ParallelFor over the tile of box k whose store
\* lands in entry e of the FArrayBox.
Writers(mf, k, dcomp, e) ==
    IF ~WritesOutside(mf, k, call.ngrow)
    THEN IF LoopWrites(mf, k, dcomp, e) THEN {<<e[1], e[2] - dcomp>>} ELSE {}
    ELSE CHOOSE W \in {LandsAt(b, GrownTileBox(mf.ba, k, call.ngrow), dcomp,
                                FabOffset(b, e[1], e[2])) : b \in {AllocBox(mf, k)}} : TRUE

\* Order of the iterations of ParallelFor(bx, ncomp, f) on the host: n, then
\* j, then i.
LoopOrderLT(v, w) == (v[2] < w[2]) \/ ((v[2] = w[2]) /\ LexLT(v[1], w[1]))

\* The iteration whose store an entry keeps: the last one on the host
\* (last), any one of them where the iterations run concurrently (the first
\* stands for the others).
Winner(W, last) ==
    CHOOSE w \in W : \A v \in W \ {w} :
        IF last THEN LoopOrderLT(v, w) ELSE LoopOrderLT(w, v)

\* The value entry e of the FArrayBox of box k holds after the iterations W
\* stored to it.
StoredValue(mf, k, e, W, junk, last) ==
    IF W = {} THEN mf.data[k][e]
    ELSE CHOOSE v \in {LoopCell(k, w[1], w[2], junk) : w \in {Winner(W, last)}} : TRUE

\* The FArrayBox of box k after the ParallelFor over its tile.
LoopFab(mf, k, dcomp, junk, last) ==
    [e \in DOMAIN mf.data[k] |->
        CHOOSE v \in {StoredValue(mf, k, e, W, junk, last) : W \in {Writers(mf, k, dcomp, e)}} : TRUE]

\* History of the values stored in the destination.
Record(h, v) == [cnt |-> h.cnt + 1, sum |-> h.sum + v, last |-> v]

(***************************************************************************)
(* CoarsenIO::Coarsen, up to the parallel region of Loop.                  *)
(***************************************************************************)
CallArgs ==
    { a \in [kind : Sources, dcomp : Comps, scomp : Comps, ncomp : 1..NComp, ngrow : 0..MaxNGrow] :
        a.dcomp + a.ncomp <= NComp /\ a.scomp + a.ncomp <= NComp }

\* Convert the BoxArray of the source to the staggering of the destination.
BaConv == BAConvert(mf_src.ba, IxType(mf_dst))
\* ... and coarsen it.
BaTmp == BACoarsen(BaConv, crse_cfg)

\* The test that selects the direct path.
DirectPath == BaTmp = mf_dst.ba /\ mf_src.dm = mf_dst.dm

Coarsen(a) ==
    /\ pc \in {"idle", "done"}
    /\ ncalls < maxCalls
    /\ call' = a
    /\ dst_before' = mf_dst.data
    /\ tilesDone' = {}
    /\ IF ~BACoarsenable(BaConv, crse_cfg)
       THEN /\ pc' = "abort"
            /\ msg' = MsgNotCoarsenable
            /\ path' = "none"
            /\ mf_tmp' = NoTmp
       ELSE LET m == LoopAssert(StagDst, StagSrc, mf_src.ngrow, IVAll(a.ngrow), crse_cfg)
            IN  /\ pc' = IF m # "" THEN "abort" ELSE "loop"
                /\ msg' = m
                /\ path' = IF DirectPath THEN "direct" ELSE "tmp"
                /\ mf_tmp' = IF DirectPath THEN NoTmp
                             ELSE MultiFab(BaTmp, mf_src.dm, a.ncomp, IVAll(0),
                                           [n \in 0..(a.ncomp - 1) |-> Uninit])
    /\ UNCHANGED <<mf_src, mf_dst, crse_cfg, ub, stored, ncalls, maxCalls>>
    /\ UNCHANGED <<varsStep, varsDeposit, varsMore>>

(***************************************************************************)
(* One tile of the (OpenMP-parallel) MFIter loop of CoarsenIO::Loop.       *)
(* Tiles are taken in any order.  A tile that reads or writes outside an   *)
(* allocation either crashes or goes on: its reads outside return junk,    *)
(* its writes outside land where the linear index of Array4 puts them, in  *)
(* another entry of the same FArrayBox or in memory the model does not     *)
(* hold.                                                                   *)
(***************************************************************************)
Tiles == DOMAIN LoopDst.ba

LoopTile(k) ==
    /\ pc = "loop"
    /\ k \in Tiles \ tilesDone
    /\ LET rd == ReadsOutside(LoopDst.ba, k, call.ngrow)
           wr == WritesOutside(LoopDst, k, call.ngrow)
           crashes == IF rd \/ wr THEN BOOLEAN ELSE {FALSE}
           junks == IF rd THEN Junk ELSE {0}
           orders == IF wr THEN BOOLEAN ELSE {TRUE}
       IN  \E crash \in crashes, o \in junks, last \in orders :
             IF crash
             THEN /\ pc' = "crash"
                  /\ UNCHANGED <<mf_dst, mf_tmp, tilesDone, ub, stored>>
             ELSE /\ pc' = pc
                  /\ tilesDone' = tilesDone \cup {k}
                  /\ ub' = ub \cup (IF rd THEN {"read"} ELSE {}) \cup (IF wr THEN {"write"} ELSE {})
                  /\ IF path = "direct"
                     THEN /\ mf_dst' = [mf_dst EXCEPT !.data[k] =
                                          LoopFab(mf_dst, k, call.dcomp, o, last)]
                          /\ stored' = [stored EXCEPT ![k] =
                                [e \in DOMAIN stored[k] |->
                                    IF Writers(mf_dst, k, call.dcomp, e) # {}
                                    THEN Record(stored[k][e], mf_dst'.data[k][e])
                                    ELSE stored[k][e]]]
                          /\ UNCHANGED mf_tmp
                     ELSE /\ mf_tmp' = [mf_tmp EXCEPT !.data[k] = LoopFab(mf_tmp, k, 0, o, last)]
                          /\ UNCHANGED <<mf_dst, stored>>
    /\ UNCHANGED <<mf_src, crse_cfg, call, path, msg, dst_before, ncalls, maxCalls>>
    /\ UNCHANGED <<varsStep, varsDeposit, varsMore>>

\* Direct path: Loop was the whole call.
LoopReturn ==
    /\ pc = "loop"
    /\ path = "direct"
    /\ tilesDone = Tiles
    /\ pc' = "done"
    /\ ncalls' = ncalls + 1
    /\ UNCHANGED <<mf_src, mf_dst, mf_tmp, crse_cfg, call, path, tilesDone, msg, ub,
                   dst_before, stored, maxCalls>>
    /\ UNCHANGED <<varsStep, varsDeposit, varsMore>>

(***************************************************************************)
(* mf_dst.ParallelCopy(mf_tmp, 0, dcomp, ncomp): valid cells of the        *)
(* destination that lie in a valid box of the temporary receive its value. *)
(* Where several boxes of the temporary hold the point (shared nodes) one  *)
(* of them is copied.                                                      *)
(***************************************************************************)
Holders(ba, p) == { k \in DOMAIN ba : InBox(p, ba[k]) }

Pick(K, last) ==
    IF last THEN CHOOSE k \in K : \A j \in K : j <= k
    ELSE CHOOSE k \in K : \A j \in K : k <= j

\* Entries of box m of the destination that the copy stores to.
CopyWrites(m, e) ==
    /\ InBox(e[1], mf_dst.ba[m])
    /\ (e[2] - call.dcomp) \in 0..(call.ncomp - 1)
    /\ Holders(mf_tmp.ba, e[1]) # {}

\* The value of the temporary that is copied to entry e.
CopyValue(e, last) ==
    mf_tmp.data[Pick(Holders(mf_tmp.ba, e[1]), last)][<<e[1], e[2] - call.dcomp>>]

\* Mutation of CopiedFab: the values are added to the destination (ParallelAdd).
CopiedFabAdd(m, last) ==
    [e \in DOMAIN mf_dst.data[m] |->
        IF CopyWrites(m, e)
        THEN mf_dst.data[m][e] + CopyValue(e, last)
        ELSE mf_dst.data[m][e]]

CopiedFab(m, last) ==
    [e \in DOMAIN mf_dst.data[m] |->
        IF CopyWrites(m, e) THEN CopyValue(e, last) ELSE mf_dst.data[m][e]]

ParallelCopy ==
    /\ pc = "loop"
    /\ path = "tmp"
    /\ tilesDone = Tiles
    /\ \E last \in BOOLEAN :
         /\ mf_dst' = [mf_dst EXCEPT !.data = [m \in DOMAIN mf_dst.ba |-> CopiedFab(m, last)]]
         /\ stored' = [m \in DOMAIN stored |->
                          [e \in DOMAIN stored[m] |->
                              IF CopyWrites(m, e)
                              THEN Record(stored[m][e], CopyValue(e, last))
                              ELSE stored[m][e]]]
    /\ mf_tmp' = NoTmp
    /\ pc' = "done"
    /\ ncalls' = ncalls + 1
    /\ UNCHANGED <<mf_src, crse_cfg, call, path, tilesDone, msg, ub, dst_before, maxCalls>>
    /\ UNCHANGED <<varsStep, varsDeposit, varsMore>>

NextCoarsen ==
    \/ \E a \in CallArgs : Coarsen(a)
    \/ \E k \in 1..2 : LoopTile(k)
    \/ LoopReturn
    \/ ParallelCopy

\* Spec: every geometry of the bounds, one Coarsen call per run.
Init == InitCoarsen(1) /\ IdleStep /\ IdleDeposit /\ IdleMore
Next == NextCoarsen
Spec == Init /\ [][Next]_vars

\* SpecSeq: cell-centred levels with full guard cells (the flattening of
\* cell-centred diagnostic data over the levels), up to MaxCalls calls into
\* the same destination.
InitSeq ==
    /\ InitCoarsen(MaxCalls)
    /\ IdleStep /\ IdleDeposit /\ IdleMore
    /\ StagSrc = Cell
    /\ StagDst = Cell
    /\ mf_src.ngrow = IVAll(MaxGuard)
    /\ mf_dst.ngrow = IVAll(MaxNGrow)
SpecSeq == InitSeq /\ [][Next]_vars

(***************************************************************************)
(* Properties of CoarsenIO::Coarsen.                                       *)
(***************************************************************************)
Called == pc # "idle"
RatioAboveOne == \E d \in Axes : crse_cfg[d] > 1
SrcCoarsenable == \A k \in DOMAIN BaConv : BoxCoarsenable(BaConv[k], crse_cfg)
\* Guard cells the interpolation needs from the source, per axis.
NeededGuard == IVAdd(IVSub(StagDst, StagSrc), IVAll(call.ngrow))
\* Destination point p lies in the coarsened source, grown by g.
Covered(p, g) == \E k \in DOMAIN BaTmp : InBox(p, BoxGrow(BaTmp[k], IVAll(g)))
\* The interpolated source value of destination point p, component n of the range.
ExpectedCell(p, n) ==
    Interp([q \in Stencil(StagSrc, StagDst, crse_cfg, p) |-> SrcVal(call.kind, q, n + call.scomp)],
           StagSrc, StagDst, crse_cfg, p)
CallComps == 0..(call.ncomp - 1)

\* C1 (as claimed): a call with a ratio > 1 on some axis and ngrow # 0 always
\* ends in the error "option of filling guard cells ... not supported".
C1_AlwaysGuardFillError ==
    (Called /\ RatioAboveOne /\ call.ngrow # 0)
        => (pc = "abort" /\ msg = MsgGuardFill)

\* C1 (amended): such a call never completes: it ends in the guard-fill error,
\* or, when the source converted to the destination's staggering is not
\* coarsenable by the ratio, in the not-coarsenable error, which is tested first.
C1_NeverCompletes ==
    (Called /\ RatioAboveOne /\ call.ngrow # 0)
        => /\ pc = "abort"
           /\ msg = IF SrcCoarsenable THEN MsgGuardFill ELSE MsgNotCoarsenable

\* C1 witness: the guard-fill error on the temporary path, with a ratio that is
\* above 1 on one axis only.
C1_Witness ==
    /\ pc = "abort" /\ msg = MsgGuardFill /\ path = "tmp"
    /\ crse_cfg[1] > 1 /\ crse_cfg[2] = 1 /\ call.ngrow # 0

\* C2 (as claimed): coarsening a source that holds V everywhere leaves V in every
\* destination cell of the coarsened source, in the requested components.
C2_ConstantPreserved ==
    (pc = "done" /\ call.kind = "const")
        => \A m \in DOMAIN mf_dst.ba : \A p \in BoxPts(mf_dst.ba[m]) : \A n \in CallComps :
              Covered(p, 0) => mf_dst.data[m][<<p, n + call.dcomp>>] = ConstVal(n)

\* C5 (as claimed): after a successful call every destination cell inside the
\* valid boxes grown by ngrow holds the interpolated source value (stated for
\* the calls that read nothing outside the source).
C5_GrownCellsFilled ==
    (pc = "done" /\ "read" \notin ub)
        => \A m \in DOMAIN mf_dst.ba :
              \A p \in BoxPts(BoxGrow(mf_dst.ba[m], IVAll(call.ngrow))) : \A n \in CallComps :
                 (Covered(p, call.ngrow) /\ InBox(p, AllocBox(mf_dst, m)))
                    => mf_dst.data[m][<<p, n + call.dcomp>>] = ExpectedCell(p, n)

\* C6 (as claimed): the interpolation loop runs only if the source has at least
\* stag_dst - stag_src + ngrow guard cells on every axis separately.
C6_LoopOnlyWithGuards ==
    (pc \in {"loop", "done", "crash"}) => AllGE(mf_src.ngrow, NeededGuard)

\* C7: if the source box array converted to the destination's staggering is not
\* coarsenable, the call ends in the not-coarsenable error before any
\* interpolation or copy: no temporary, no tile, the destination as it was.
C7_NotCoarsenableLeavesDst ==
    (Called /\ ~SrcCoarsenable)
        => /\ pc = "abort" /\ msg = MsgNotCoarsenable
           /\ path = "none" /\ mf_tmp = NoTmp /\ tilesDone = {}
           /\ mf_dst.data = dst_before
           /\ \A m \in DOMAIN stored : \A e \in DOMAIN stored[m] : stored[m][e].cnt = 0

\* C7 witness: a call that ended in the not-coarsenable error.
C7_Witness ==
    /\ pc = "abort" /\ msg = MsgNotCoarsenable /\ ~SrcCoarsenable
    /\ mf_dst.data = dst_before

\* C8 (as claimed): with ngrow = 0 a destination cell covered by the coarsened
\* source holds, on the direct path and on the temporary path alike, the value
\* interpolated from source components [scomp, scomp+ncomp), in destination
\* components [dcomp, dcomp+ncomp).
C8_PathsAgree ==
    (pc = "done" /\ call.ngrow = 0)
        => \A m \in DOMAIN mf_dst.ba : \A p \in BoxPts(mf_dst.ba[m]) : \A n \in CallComps :
              Covered(p, 0) => mf_dst.data[m][<<p, n + call.dcomp>>] = ExpectedCell(p, n)

\* C9 (as claimed): the destination after a call is determined by the arguments
\* alone: every entry a call stored to holds the value interpolated from the
\* source field, whatever the order of the tiles.
C9_Deterministic ==
    (pc = "done")
        => \A m \in DOMAIN mf_dst.ba : \A e \in DOMAIN mf_dst.data[m] :
              stored[m][e].cnt > 0
                 => mf_dst.data[m][e] = ExpectedCell(e[1], e[2] - call.dcomp)

\* C4 (as claimed): a cell that several calls stored to holds the combination
\* of the value it had before and of every contribution.
C4_Combines ==
    (pc = "done")
        => \A m \in DOMAIN mf_dst.ba : \A e \in DOMAIN mf_dst.data[m] :
              stored[m][e].cnt >= 2 => mf_dst.data[m][e] = stored[m][e].sum

\* C4 (amended): a cell that calls stored to holds the value of the last store
\* alone, which is not the combination.
C4_Overwrites ==
    (pc = "done")
        => \A m \in DOMAIN mf_dst.ba : \A e \in DOMAIN mf_dst.data[m] :
              stored[m][e].cnt >= 1
                 => /\ mf_dst.data[m][e] = stored[m][e].last
                    /\ mf_dst.data[m][e] # stored[m][e].sum

\* C4 witness: two completed calls stored different values to the same cell.
C4_Witness ==
    /\ pc = "done" /\ ncalls = 2
    /\ \E m \in DOMAIN mf_dst.ba : \E e \in DOMAIN mf_dst.data[m] :
          /\ stored[m][e].cnt = 2
          /\ dst_before[m][e] # mf_dst.data[m][e]
          /\ mf_dst.data[m][e] = stored[m][e].last

\* C19 (as stated): a call changes nothing but components
\* [dcomp, dcomp+ncomp) of the destination cells that the coarsened source,
\* grown by ngrow, covers: every other entry of the destination holds the
\* value it had when the call started.
C19_FrameOnly ==
    Called
        => \A m \in DOMAIN mf_dst.ba : \A e \in DOMAIN mf_dst.data[m] :
              ((e[2] - call.dcomp) \notin CallComps \/ ~Covered(e[1], call.ngrow))
                 => mf_dst.data[m][e] = dst_before[m][e]

\* C20 (as stated): Loop stores only inside the allocation of its
\* destination: every point of every tile box grown by ngrow lies in the
\* FArrayBox (valid box grown by the guard cells) of the MultiFab Loop was
\* given, the temporary on the temporary path.
C20_WritesInBounds ==
    (pc = "loop")
        => \A k \in Tiles : \A p \in BoxPts(GrownTileBox(LoopDst.ba, k, call.ngrow)) :
              InBox(p, AllocBox(LoopDst, k))

(***************************************************************************)
(* Part II.  Level / time-step orchestrator.                               *)
(*                                                                         *)
(* Per time step the levels are taken from the finest to the coarsest; a   *)
(* level runs the six-step sequence once per iteration, nsubsteps times    *)
(* per iteration of its parent (subcycling).  Every step is a synchronous  *)
(* kernel: the orchestrator launches it, its boxes finish in any order,    *)
(* and the orchestrator waits for it before it goes on.                    *)
(***************************************************************************)
Steps == << "GatherFields", "PushParticles", "DepositSources",
            "CoarsenSources", "AdvanceFields", "InterpolateAux" >>

StepNo(name) == CHOOSE i \in DOMAIN Steps : Steps[i] = name

HasFiner(l) == l < finest_level

\* Steps 4 and 6 exist for a level only if finer levels exist.
Applies(s, l) == (Steps[s] \in {"CoarsenSources", "InterpolateAux"}) => HasFiner(l)

LastStep(l) == CHOOSE s \in DOMAIN Steps :
                  Applies(s, l) /\ \A r \in DOMAIN Steps : Applies(r, l) => r <= s

StepAfter(s, l) == CHOOSE r \in DOMAIN Steps :
                      /\ r > s /\ Applies(r, l)
                      /\ \A q \in DOMAIN Steps : (q > s /\ Applies(q, l)) => r <= q

\* Iterations of level l per coarse time step.
Iterations(l) == nsubsteps ^ l

KernelBoxes == 1..NBoxes

InitStep ==
    /\ finest_level \in 0..MaxLevel
    /\ nsubsteps \in 1..MaxSub
    /\ istep = 0
    /\ lev = finest_level
    /\ iter = 1
    /\ step = 1
    /\ running = FALSE
    /\ boxesDone = {}
    /\ coarsened = [l \in 0..finest_level |-> "none"]
    /\ IdleCoarsen /\ IdleDeposit /\ IdleMore

\* The orchestrator launches the kernel of the step it is at.
Launch(name) ==
    /\ istep < MaxSteps
    /\ ~running
    /\ Steps[step] = name
    /\ running' = TRUE
    /\ boxesDone' = {}
    /\ coarsened' = IF name = "CoarsenSources"
                    THEN [coarsened EXCEPT ![lev] = "pending"]
                    ELSE coarsened
    /\ UNCHANGED <<finest_level, nsubsteps, istep, lev, iter, step>>
    /\ UNCHANGED <<varsCoarsen, varsDeposit, varsMore>>

GatherFields == Launch("GatherFields")
PushParticles == Launch("PushParticles")
DepositSources == Launch("DepositSources")
CoarsenSources == Launch("CoarsenSources")
AdvanceFields == Launch("AdvanceFields")
InterpolateAux == Launch("InterpolateAux")

\* One box of the launched kernel finishes; the boxes are independent.
KernelBox(b) ==
    /\ running
    /\ b \in KernelBoxes \ boxesDone
    /\ boxesDone' = boxesDone \cup {b}
    /\ coarsened' = IF Steps[step] = "CoarsenSources" /\ boxesDone' = KernelBoxes
                    THEN [coarsened EXCEPT ![lev] = "done"]
                    ELSE coarsened
    /\ UNCHANGED <<finest_level, nsubsteps, istep, lev, iter, step, running>>
    /\ UNCHANGED <<varsCoarsen, varsDeposit, varsMore>>

\* Mutation of KernelComplete: the orchestrator does not wait for the boxes.
KernelCompleteNoWait == TRUE

\* What the orchestrator waits for: every box of the kernel has finished.
KernelComplete == boxesDone = KernelBoxes

\* The wait returns and the orchestrator moves to the next step, the next
\* iteration of the level, the next coarser level, or the next time step.
WaitKernel ==
    /\ running
    /\ KernelComplete
    /\ running' = FALSE
    /\ boxesDone' = {}
    /\ IF step # LastStep(lev)
       THEN /\ step' = StepAfter(step, lev)
            /\ UNCHANGED <<istep, lev, iter, coarsened>>
       ELSE /\ step' = 1
            /\ IF iter < Iterations(lev)
               THEN /\ iter' = iter + 1
                    /\ coarsened' = [coarsened EXCEPT ![lev] = "none"]
                    /\ UNCHANGED <<istep, lev>>
               ELSE /\ iter' = 1
                    /\ IF lev > 0
                       THEN /\ lev' = lev - 1
                            /\ UNCHANGED <<istep, coarsened>>
                       ELSE /\ lev' = finest_level
                            /\ istep' = istep + 1
                            /\ coarsened' = [l \in 0..finest_level |-> "none"]
    /\ UNCHANGED <<finest_level, nsubsteps>>
    /\ UNCHANGED <<varsCoarsen, varsDeposit, varsMore>>

NextStep ==
    \/ GatherFields
    \/ PushParticles
    \/ DepositSources
    \/ CoarsenSources
    \/ AdvanceFields
    \/ InterpolateAux
    \/ \E b \in KernelBoxes : KernelBox(b)
    \/ WaitKernel

SpecStep == InitStep /\ [][NextStep]_vars

\* C3: whenever the orchestrator is at AdvanceFields on a level that has finer
\* levels (about to launch the solve, or with the solve running), the coarsening
\* of the finer sources into that level for this iteration has completed: it is
\* neither pending nor not yet started.
C3_CoarsenBeforeSolve ==
    (Steps[step] = "AdvanceFields" /\ HasFiner(lev)) => coarsened[lev] = "done"

\* C3 witness: the field solve runs in the second iteration of a subcycled
\* level that has a finer level.
C3_Witness ==
    /\ running /\ Steps[step] = "AdvanceFields" /\ boxesDone # {}
    /\ HasFiner(lev) /\ lev > 0 /\ nsubsteps > 1 /\ iter > 1
    /\ coarsened[lev] = "done"

(***************************************************************************)
(* Part III.  Charge deposition.                                           *)
(*                                                                         *)
(* The particles of a species are held in tiles.  In the parallel region a *)
(* free thread takes a tile nobody has taken and calls                     *)
(* DepositCharge(pti, wp, ..., rho, ..., thread_num, ...) for it: with     *)
(* per-thread buffers it zeroes local_rho[thread_num], deposits the tile's *)
(* particles into it and adds the buffer to rho with one atomic add per    *)
(* node; without them every particle is added to rho with one atomic add   *)
(* per node of its stencil.  Positions are in half cells on one axis, the  *)
(* shape function is linear, shape factors are in halves.                  *)
(***************************************************************************)
Threads == 1..NThreads
ParticleTiles == 1..NTiles
Particles == 1..NParticles
\* Orders of the shape function: nearest grid point, linear, quadratic, cubic.
ShapeOrders == 0..3

\* Mutation of GuardNodes: the mesh has no guard nodes.
GuardNodesNone(order) == 0

\* Guard nodes the mesh carries on each side for a shape function of this order.
GuardNodes(order) == IF order >= 2 THEN 1 ELSE 0

\* Nodes of the mesh: those of the domain and the guard nodes.
Nodes == (0 - GuardNodes(nox))..(NNodes - 1 + GuardNodes(nox))
\* The i-th node in storage order, from 1.
NodeAt(i) == i - 1 - GuardNodes(nox)
Positions == 0..(2 * (NNodes - 1))

TileOf(p) == ((p - 1) % NTiles) + 1

\* The particles of a tile, in storage order.
TileParticles(tl) == SelectSeq([p \in Particles |-> p], LAMBDA p : TileOf(p) = tl)

\* Weight wp of a particle (the species' charge is the unit).
Weight(p) == p

\* Nodes of the stencil of a particle at position x, in loop order.
ShapeNodes(x) == IF x % 2 = 0 THEN << x \div 2 >>
                 ELSE << (x - 1) \div 2, (x + 1) \div 2 >>

\* Linear shape factor of node c for position x, in halves.
ShapeFactor(x, c) == IF Abs(x - 2 * c) >= 2 THEN 0 ELSE 2 - Abs(x - 2 * c)

\* The integer that stands for shape factor 1 at each order (the factors of
\* half-cell positions are multiples of 1, 1/2, 1/8 and 1/48).
ShapeUnit(order) ==
    CASE order = 0 -> 1
      [] order = 1 -> 2
      [] order = 2 -> 8
      [] OTHER -> 48

\* Shape factor of node c for position x at the given order, in ShapeUnit:
\* the B-spline of that order at distance a/2 cells; at order 0 a particle
\* midway between two nodes goes to the upper one.
ShapeFactorN(order, x, c) ==
    LET a == Abs(x - 2 * c)
    IN  CASE order = 0 -> IF (x - 2 * c) \in {0 - 1, 0} THEN 1 ELSE 0
          [] order = 1 -> ShapeFactor(x, c)
          [] order = 2 -> IF a <= 1 THEN 6 - 2 * a * a
                          ELSE IF a <= 3 THEN (3 - a) * (3 - a) ELSE 0
          [] OTHER -> IF a <= 2 THEN 32 - 12 * a * a + 3 * a * a * a
                      ELSE IF a <= 4 THEN (4 - a) * (4 - a) * (4 - a) ELSE 0

RECURSIVE Ascending(_)
Ascending(S) ==
    IF S = {} THEN << >>
    ELSE LET m == CHOOSE x \in S : \A y \in S : x <= y
         IN  << m >> \o Ascending(S \ {m})

\* Nodes of the stencil at the given order, in loop order.
StencilNodes(order, x) ==
    IF order = 1 THEN ShapeNodes(x)
    ELSE Ascending({ c \in ((x \div 2) - 2)..((x \div 2) + 3) : ShapeFactorN(order, x, c) > 0 })

\* What particle p adds to node c.
Contribution(p, c) == charge * Weight(p) * ShapeFactorN(nox, xp[p], c)

\* What InitDeposit and InitConserve share.
InitMesh ==
    /\ deposit_mode \in {"buffers", "atomic"}
    /\ xp \in [Particles -> Positions]
    /\ rho = [c \in Nodes |-> 0]
    /\ local_rho = [t \in Threads |-> [c \in Nodes |-> Uninit]]
    /\ tilesLeft = ParticleTiles
    /\ tpc = [t \in Threads |-> "idle"]
    /\ cur_tile = [t \in Threads |-> 0]
    /\ ip = [t \in Threads |-> 1]
    /\ inode = [t \in Threads |-> 1]
    /\ done_by = [tl \in ParticleTiles |-> 0]
    /\ IdleCoarsen /\ IdleStep /\ IdleMore

\* SpecDeposit: linear shape, unit charge, NThreads threads.
InitDeposit ==
    /\ nox = 1
    /\ charge = 1
    /\ nthreads = NThreads
    /\ InitMesh

\* SpecConserve: every order and sign of charge, one thread.
InitConserve ==
    /\ nox \in ShapeOrders
    /\ charge \in {0 - 1, 2}
    /\ nthreads = 1
    /\ InitMesh

\* Mutation of BufferOf: one buffer for all the threads.
BufferShared(t) == 1

\* The buffer a thread deposits into: local_rho[thread_num].
BufferOf(t) == t

\* A free thread takes the next tile of the particle iterator.
TakeTile(t, tl) ==
    /\ tpc[t] = "idle"
    /\ t <= nthreads
    /\ tl \in tilesLeft
    /\ tilesLeft' = tilesLeft \ {tl}
    /\ cur_tile' = [cur_tile EXCEPT ![t] = tl]
    /\ done_by' = [done_by EXCEPT ![tl] = t]
    /\ tpc' = [tpc EXCEPT ![t] = IF deposit_mode = "buffers" THEN "reset" ELSE "deposit"]
    /\ ip' = [ip EXCEPT ![t] = 1]
    /\ inode' = [inode EXCEPT ![t] = 1]
    /\ UNCHANGED <<nox, charge, nthreads, deposit_mode, xp, rho, local_rho>>
    /\ UNCHANGED <<varsCoarsen, varsStep, varsMore>>

\* local_rho[thread_num].setVal(0)
ResetLocal(t) ==
    /\ tpc[t] = "reset"
    /\ local_rho' = [local_rho EXCEPT ![BufferOf(t)] = [c \in Nodes |-> 0]]
    /\ tpc' = [tpc EXCEPT ![t] = "deposit"]
    /\ UNCHANGED <<nox, charge, nthreads, deposit_mode, xp, rho, tilesLeft, cur_tile, ip, inode, done_by>>
    /\ UNCHANGED <<varsCoarsen, varsStep, varsMore>>

\* One node of the stencil of the next particle of the tile: added to the
\* thread's buffer, or to rho with an atomic add.
DepositNode(t) ==
    /\ tpc[t] = "deposit"
    /\ ip[t] <= Len(TileParticles(cur_tile[t]))
    /\ LET p == TileParticles(cur_tile[t])[ip[t]]
           nodes == StencilNodes(nox, xp[p])
           c == nodes[inode[t]]
       IN  /\ IF deposit_mode = "buffers"
              THEN /\ local_rho' = [local_rho EXCEPT ![BufferOf(t)][c] = @ + Contribution(p, c)]
                   /\ UNCHANGED rho
              ELSE /\ rho' = [rho EXCEPT ![c] = @ + Contribution(p, c)]
                   /\ UNCHANGED local_rho
           /\ IF inode[t] < Len(nodes)
              THEN /\ inode' = [inode EXCEPT ![t] = @ + 1]
                   /\ UNCHANGED ip
              ELSE /\ inode' = [inode EXCEPT ![t] = 1]
                   /\ ip' = [ip EXCEPT ![t] = @ + 1]
    /\ UNCHANGED <<nox, charge, nthreads, deposit_mode, xp, tilesLeft, tpc, cur_tile, done_by>>
    /\ UNCHANGED <<varsCoarsen, varsStep, varsMore>>

\* The particle loop of the tile is over.
EndParticleLoop(t) ==
    /\ tpc[t] = "deposit"
    /\ ip[t] > Len(TileParticles(cur_tile[t]))
    /\ tpc' = [tpc EXCEPT ![t] = IF deposit_mode = "buffers" THEN "merge" ELSE "idle"]
    /\ inode' = [inode EXCEPT ![t] = 1]
    /\ UNCHANGED <<nox, charge, nthreads, deposit_mode, xp, rho, local_rho, tilesLeft, cur_tile, ip, done_by>>
    /\ UNCHANGED <<varsCoarsen, varsStep, varsMore>>

\* rho.atomicAdd(local_rho[thread_num]): one node of the merge.
MergeNode(t) ==
    /\ tpc[t] = "merge"
    /\ LET c == NodeAt(inode[t])
       IN  /\ rho' = [rho EXCEPT ![c] = @ + local_rho[BufferOf(t)][c]]
           /\ IF inode[t] < Cardinality(Nodes)
              THEN /\ inode' = [inode EXCEPT ![t] = @ + 1]
                   /\ UNCHANGED tpc
              ELSE /\ inode' = [inode EXCEPT ![t] = 1]
                   /\ tpc' = [tpc EXCEPT ![t] = "idle"]
    /\ UNCHANGED <<nox, charge, nthreads, deposit_mode, xp, local_rho, tilesLeft, cur_tile, ip, done_by>>
    /\ UNCHANGED <<varsCoarsen, varsStep, varsMore>>

NextDeposit ==
    \/ \E t \in Threads, tl \in ParticleTiles : TakeTile(t, tl)
    \/ \E t \in Threads : ResetLocal(t)
    \/ \E t \in Threads : DepositNode(t)
    \/ \E t \in Threads : EndParticleLoop(t)
    \/ \E t \in Threads : MergeNode(t)

SpecDeposit == InitDeposit /\ [][NextDeposit]_vars

\* Every tile has been deposited and merged.
DepositDone == tilesLeft = {} /\ \A t \in Threads : tpc[t] = "idle"

\* Sum over the particles of what they add to node c.
TotalContribution(c) == SumOver(Particles, [p \in Particles |-> Contribution(p, c)])

\* C10: when the deposition is over, every node of rho holds the sum of the
\* contributions of all the particles, whatever the interleaving of the threads,
\* with per-thread buffers and with atomic adds alike.
C10_DepositedSum ==
    DepositDone => \A c \in Nodes : rho[c] = TotalContribution(c)

\* C10 witness: with per-thread buffers, two particles of tiles processed by
\* different threads have deposited into the same node.
C10_Witness ==
    /\ DepositDone /\ deposit_mode = "buffers"
    /\ \E c \in Nodes : \E p \in Particles, q \in Particles :
          /\ done_by[TileOf(p)] # done_by[TileOf(q)]
          /\ Contribution(p, c) > 0 /\ Contribution(q, c) > 0
          /\ rho[c] = TotalContribution(c)

SpecConserve == InitConserve /\ [][NextDeposit]_vars

\* C11: when the deposition onto the zeroed mesh is over, the sum of rho over
\* all the nodes of the mesh (guard nodes included) is q times the sum of the
\* weights, at every order of the shape function and for every placement of the
\* particles, on a node or midway between two nodes.
C11_ChargeConserved ==
    DepositDone =>
        SumOver(Nodes, rho) =
            charge * ShapeUnit(nox) * SumOver(Particles, [p \in Particles |-> Weight(p)])

\* C11 witness: a cubic deposition of a negative species, with a particle on
\* the first node of the domain and a particle midway between two nodes, that
\* has put charge on a guard node.
C11_Witness ==
    /\ DepositDone /\ nox = 3 /\ charge < 0
    /\ \E p \in Particles : xp[p] = 0
    /\ \E p \in Particles : xp[p] % 2 = 1
    /\ rho[0 - 1] # 0

(***************************************************************************)
(* Part IV.  UpdatePosition (Particles/Pusher/UpdatePosition.H).           *)
(*                                                                         *)
(* Momenta are integers in units of c (PhysConst::c = 1), chosen so that   *)
(* the Lorentz factor sqrt(1 + u.u/c^2) is an integer; time steps are      *)
(* multiples of DtUnit, so that u * inv_gamma * dt is an integer and the   *)
(* arithmetic of the push is exact.                                        *)
(***************************************************************************)
Builds == {"1D_Z", "2D_XZ", "RZ", "3D"}

\* AMREX_SPACEDIM of a build.
SpaceDim(b) == CASE b = "1D_Z" -> 1 [] b = "3D" -> 3 [] OTHER -> 2

inv_c2 == 1

IsSquare(n) == \E r \in 0..n : r * r = n
ISqrt(n) == CHOOSE r \in 0..n : r * r = n

\* 1 / inv_gamma = sqrt(1 + (ux*ux + uy*uy + uz*uz)*inv_c2)
Gamma(ux, uy, uz) == ISqrt(1 + (ux * ux + uy * uy + uz * uz) * inv_c2)

Momenta == { u \in (0 - MaxU..MaxU) \X (0 - MaxU..MaxU) \X (0 - MaxU..MaxU) :
               IsSquare(1 + (u[1] * u[1] + u[2] * u[2] + u[3] * u[3]) * inv_c2) }

\* The Lorentz factors of Momenta are 1, 2 and 3.
DtUnit == 2 * 3
Dts == { k * DtUnit : k \in (0 - MaxDt)..MaxDt }

StartPositions == {0, 5}

InitPush ==
    /\ dim \in Builds
    /\ \E pos \in StartPositions \X StartPositions \X StartPositions, u \in Momenta :
          part = [x |-> pos[1], y |-> pos[2], z |-> pos[3],
                  ux |-> u[1], uy |-> u[2], uz |-> u[3]]
    /\ part0 = part
    /\ part_prev = part
    /\ last_dt = 0
    /\ npush = 0
    /\ IdleCoarsen /\ IdleStep /\ IdleDeposit /\ IdlePsatd /\ IdleInitData /\ IdleLate

\* Mutation of Advance: the momentum is left out of the displacement.
AdvanceNoMomentum(q, u, gamma, dt) == q + dt \div gamma

\* q += u * inv_gamma * dt
Advance(q, u, gamma, dt) == q + (u * dt) \div gamma

\* Mutation of PushesX: x is advanced in every build.
PushesXAlways(b) == TRUE

\* #if (AMREX_SPACEDIM >= 2)
PushesX(b) == SpaceDim(b) >= 2

\* #if defined(WARPX_DIM_3D) || defined(WARPX_DIM_RZ)
PushesY(b) == b \in {"3D", "RZ"}

UpdatePosition(dt) ==
    /\ npush < MaxPush
    /\ LET gamma == Gamma(part.ux, part.uy, part.uz)
       IN  part' = [part EXCEPT
                      !.x = IF PushesX(dim) THEN Advance(@, part.ux, gamma, dt) ELSE @,
                      !.y = IF PushesY(dim) THEN Advance(@, part.uy, gamma, dt) ELSE @,
                      !.z = Advance(@, part.uz, gamma, dt)]
    /\ part_prev' = part
    /\ last_dt' = dt
    /\ npush' = npush + 1
    /\ UNCHANGED <<dim, part0>>
    /\ UNCHANGED <<varsCoarsen, varsStep, varsDeposit, varsPsatd, varsInitData, varsLate>>

NextPush == \E dt \in Dts : UpdatePosition(dt)

SpecPush == InitPush /\ [][NextPush]_vars

Pushed == npush > 0

C13_OnlyRepresentedAxes ==
    Pushed =>
        /\ (dim = "1D_Z") => (part.x = part_prev.x /\ part.y = part_prev.y)
        /\ (dim = "2D_XZ") => (part.y = part_prev.y)
        /\ part.z = part_prev.z
                      + (part_prev.uz * last_dt) \div Gamma(part_prev.ux, part_prev.uy, part_prev.uz)
        /\ part.ux = part0.ux /\ part.uy = part0.uy /\ part.uz = part0.uz

\* C13 witness: in a 1D build a particle with momentum along x, y and z has
\* moved along z alone.
C13_Witness ==
    /\ Pushed /\ dim = "1D_Z" /\ last_dt # 0
    /\ part.ux # 0 /\ part.uy # 0 /\ part.uz # 0
    /\ part.x = part_prev.x /\ part.y = part_prev.y /\ part.z # part_prev.z

(***************************************************************************)
(* Part V.  PsatdAlgorithmRZ: spectral coefficients built on first use.    *)
(*                                                                         *)
(* dt_step and norder_z are constructor arguments and the class has no     *)
(* setter: a level whose time step or order changes gets a new instance.   *)
(* One spectral mode is kept; C_coef and S_ck_coef are integer stand-ins   *)
(* for cos(c k dt) and sin(c k dt)/(c k), different for every (dt, order). *)
(***************************************************************************)
SolverDts == 1..MaxSolverDt
SolverOrders == {2, 4}

\* Coefficients not yet allocated.
NoCoefs == [C_coef |-> 0, S_ck_coef |-> 0]

\* The coefficients of the update equation for a time step and an order.
SpectralCoefficients(dt, norder) == [C_coef |-> 10 * norder - dt * dt, S_ck_coef |-> dt]

\* InitializeSpectralCoefficients: built from the saved m_dt.
InitializeSpectralCoefficients(sv) == SpectralCoefficients(sv.m_dt, sv.norder_z)

\* The update of one mode with given coefficients.
PushWith(coef, f) ==
    [E |-> coef.C_coef * f.E + coef.S_ck_coef * f.B,
     B |-> coef.C_coef * f.B - coef.S_ck_coef * f.E]

\* Mutation of Constructed: the new instance claims to hold coefficients.
ConstructedInitialized(dt_step, norder_z) ==
    [m_dt |-> dt_step, norder_z |-> norder_z, coefficients_initialized |-> TRUE,
     coef |-> NoCoefs]

\* The instance the constructor leaves.
Constructed(dt_step, norder_z) ==
    [m_dt |-> dt_step, norder_z |-> norder_z, coefficients_initialized |-> FALSE,
     coef |-> NoCoefs]

InitPsatd ==
    /\ sim_dt \in SolverDts
    /\ sim_order \in SolverOrders
    /\ solver = Constructed(sim_dt, sim_order)
    /\ fields \in [E : 0..MaxField, B : 0..MaxField]
    /\ fields_prev = fields
    /\ applied = NoCoefs
    /\ last_op = "construct"
    /\ nadv = 0
    /\ ninst = 0
    /\ IdleCoarsen /\ IdleStep /\ IdleDeposit /\ IdlePush /\ IdleInitData /\ IdleLate

\* The time step or the order of the level changes: its solver is allocated
\* anew with the new values.
PsatdAlgorithmRZ(dt_step, norder_z) ==
    /\ nadv < MaxAdvances
    /\ <<dt_step, norder_z>> # <<sim_dt, sim_order>>
    /\ sim_dt' = dt_step
    /\ sim_order' = norder_z
    /\ solver' = Constructed(dt_step, norder_z)
    /\ last_op' = "construct"
    /\ ninst' = 0
    /\ UNCHANGED <<fields, fields_prev, applied, nadv>>
    /\ UNCHANGED <<varsCoarsen, varsStep, varsDeposit, varsPush, varsInitData, varsLate>>

\* Mutation of CoefficientsMissing: the coefficients are never built.
CoefficientsMissingNever(sv) == FALSE

\* if (not coefficients_initialized)
CoefficientsMissing(sv) == ~sv.coefficients_initialized

pushSpectralFields ==
    /\ nadv < MaxAdvances
    /\ LET sv == IF CoefficientsMissing(solver)
                 THEN [solver EXCEPT !.coef = InitializeSpectralCoefficients(solver),
                                     !.coefficients_initialized = TRUE]
                 ELSE solver
       IN  /\ solver' = sv
           /\ applied' = sv.coef
           /\ fields' = PushWith(sv.coef, fields)
    /\ fields_prev' = fields
    /\ last_op' = "push"
    /\ nadv' = nadv + 1
    /\ ninst' = ninst + 1
    /\ UNCHANGED <<sim_dt, sim_order>>
    /\ UNCHANGED <<varsCoarsen, varsStep, varsDeposit, varsPush, varsInitData, varsLate>>

NextPsatd ==
    \/ \E d \in SolverDts, o \in SolverOrders : PsatdAlgorithmRZ(d, o)
    \/ pushSpectralFields

SpecPsatd == InitPsatd /\ [][NextPsatd]_vars

FinestFabLevel == 1
Levels == 0..FinestFabLevel
FieldDims == 0..2

\* The name a MultiFab carries (mf.tags()[1]).
Tag(name, level, d) == name \o "[" \o ToString(d) \o "][l=" \o ToString(level) \o "]"
ScalarTag(name, level) == name \o "[l=" \o ToString(level) \o "]"

\* The MultiFabs of one patch ("fp" or "cp") of one level, in the order
\* CheckGuardCells visits them.
VectorFabs(patch, level, d, averaging) ==
    <<Tag("Efield_" \o patch, level, d), Tag("Bfield_" \o patch, level, d),
      Tag("current_" \o patch, level, d)>>
    \o (IF averaging
        THEN <<Tag("Efield_avg_" \o patch, level, d), Tag("Bfield_avg_" \o patch, level, d)>>
        ELSE <<>>)

PatchFabs(patch, level, averaging, allocated) ==
    VectorFabs(patch, level, 0, averaging) \o VectorFabs(patch, level, 1, averaging)
    \o VectorFabs(patch, level, 2, averaging)
    \o (IF ScalarTag("rho_" \o patch, level) \in allocated
        THEN <<ScalarTag("rho_" \o patch, level)>> ELSE <<>>)
    \o (IF ScalarTag("F_" \o patch, level) \in allocated
        THEN <<ScalarTag("F_" \o patch, level)>> ELSE <<>>)

LevelFabs(level, averaging, allocated) ==
    PatchFabs("fp", level, averaging, allocated)
    \o (IF level > 0 THEN PatchFabs("cp", level, averaging, allocated) ELSE <<>>)

RECURSIVE CheckedFrom(_, _, _)
CheckedFrom(level, averaging, allocated) ==
    IF level > FinestFabLevel THEN <<>>
    ELSE LevelFabs(level, averaging, allocated) \o CheckedFrom(level + 1, averaging, allocated)

\* The MultiFabs CheckGuardCells() examines, in order.
CheckedFabs(averaging, allocated) == CheckedFrom(0, averaging, allocated)

SeqRange(q) == {q[i] : i \in 1..Len(q)}

\* The field MultiFabs a run holds: the fine patch of every level, the
\* coarse patch of every refined level, the auxiliary E and B of every level;
\* time-averaged fields with fft_do_time_averaging, rho, F and G when the
\* input asks for them.
PatchTags(patch, level, averaging, with_rho, with_div) ==
    UNION {SeqRange(VectorFabs(patch, level, d, averaging)) : d \in FieldDims}
    \cup (IF with_rho THEN {ScalarTag("rho_" \o patch, level)} ELSE {})
    \cup (IF with_div THEN {ScalarTag("F_" \o patch, level), ScalarTag("G_" \o patch, level)}
          ELSE {})

AuxTags(level) ==
    {Tag("Efield_aux", level, d) : d \in FieldDims} \cup {Tag("Bfield_aux", level, d) : d \in FieldDims}

AllocatedTags(averaging, with_rho, with_div) ==
    UNION {PatchTags("fp", level, averaging, with_rho, with_div) \cup AuxTags(level)
           \cup (IF level > 0 THEN PatchTags("cp", level, averaging, with_rho, with_div) ELSE {})
           : level \in Levels}

\* Every tag a MultiFab of the levels can carry.
FieldTags == AllocatedTags(TRUE, TRUE, TRUE)

\* A MultiFab whose boxes all have more valid than guard cells, and the ways
\* one can fail to: as many guard as valid cells along one axis, more guard
\* than valid cells along the other, one small box after a large one.
GoodFab == [vc |-> <<<<2, 2>>, <<2, 2>>>>, gc |-> <<1, 1>>]
BadFabs ==
    {[vc |-> <<<<2, 2>>, <<2, 2>>>>, gc |-> <<2, 1>>],
     [vc |-> <<<<2, 2>>, <<2, 2>>>>, gc |-> <<1, 3>>],
     [vc |-> <<<<2, 2>>, <<2, 1>>>>, gc |-> <<1, 1>>]}

\* Optional steps of InitData, by the input flag that enables them.
OptionalSteps == {"use_fdtd_nci_corr", "use_filter", "em_solver_medium", "m_plot_rd"}

InitInitData ==
    /\ restart_chkfile \in {"", "chk00010"}
    /\ fft_do_time_averaging \in BOOLEAN
    /\ init_opts \in {{}, OptionalSteps}
    /\ \E with_rho \in BOOLEAN, with_div \in BOOLEAN :
         LET tags == AllocatedTags(fft_do_time_averaging, with_rho, with_div) IN
           \/ fabs = [t \in tags |-> GoodFab]
           \/ \E bad \in tags, f \in BadFabs :
                fabs = [t \in tags |-> IF t = bad THEN f ELSE GoodFab]
    /\ init_pc = "start"
    /\ init_steps = <<>>
    /\ abort_msgs = <<>>
    /\ IdleCoarsen /\ IdleStep /\ IdleDeposit /\ IdlePush /\ IdlePsatd /\ IdleLate

\* Mutation of InitDataSteps: the guard cells are checked after the initial
\* diagnostics are written.
InitDataStepsCheckLast(chkfile, opts) ==
    (IF chkfile = ""
     THEN <<"ComputeDt", "PrintDtDxDyDz", "InitFromScratch">>
     ELSE <<"InitFromCheckpoint", "PrintDtDxDyDz", "PostRestart">>)
    \o <<"ComputeMaxStep", "ComputePMLFactors">>
    \o (IF "use_fdtd_nci_corr" \in opts THEN <<"InitNCICorrector">> ELSE <<>>)
    \o (IF "use_filter" \in opts THEN <<"InitFilter">> ELSE <<>>)
    \o <<"BuildBufferMasks">>
    \o (IF "em_solver_medium" \in opts THEN <<"MacroscopicProperties::InitData">> ELSE <<>>)
    \o <<"InitDiagnostics", "printGridSummary", "PrintMainPICparameters">>
    \o (IF chkfile = ""
        THEN <<"ComputeSpaceChargeField", "FilterComputePackFlush">>
             \o (IF "m_plot_rd" \in opts THEN <<"ComputeDiags", "WriteToFile">> ELSE <<>>)
        ELSE <<>>)
    \o <<"CheckGuardCells", "PerformanceHints">>

\* Mutation of InitDataSteps: the initial outputs are not under the test of
\* restart_chkfile.
InitDataStepsAlwaysWrite(chkfile, opts) ==
    (IF chkfile = ""
     THEN <<"ComputeDt", "PrintDtDxDyDz", "InitFromScratch">>
     ELSE <<"InitFromCheckpoint", "PrintDtDxDyDz", "PostRestart">>)
    \o <<"ComputeMaxStep", "ComputePMLFactors">>
    \o (IF "use_fdtd_nci_corr" \in opts THEN <<"InitNCICorrector">> ELSE <<>>)
    \o (IF "use_filter" \in opts THEN <<"InitFilter">> ELSE <<>>)
    \o <<"BuildBufferMasks">>
    \o (IF "em_solver_medium" \in opts THEN <<"MacroscopicProperties::InitData">> ELSE <<>>)
    \o <<"InitDiagnostics", "printGridSummary", "CheckGuardCells", "PrintMainPICparameters">>
    \o <<"ComputeSpaceChargeField", "FilterComputePackFlush">>
    \o (IF "m_plot_rd" \in opts THEN <<"ComputeDiags", "WriteToFile">> ELSE <<>>)
    \o <<"PerformanceHints">>

\* The body of WarpX::InitData, statement by statement.
InitDataSteps(chkfile, opts) ==
    (IF chkfile = ""
     THEN <<"ComputeDt", "PrintDtDxDyDz", "InitFromScratch">>
     ELSE <<"InitFromCheckpoint", "PrintDtDxDyDz", "PostRestart">>)
    \o <<"ComputeMaxStep", "ComputePMLFactors">>
    \o (IF "use_fdtd_nci_corr" \in opts THEN <<"InitNCICorrector">> ELSE <<>>)
    \o (IF "use_filter" \in opts THEN <<"InitFilter">> ELSE <<>>)
    \o <<"BuildBufferMasks">>
    \o (IF "em_solver_medium" \in opts THEN <<"MacroscopicProperties::InitData">> ELSE <<>>)
    \o <<"InitDiagnostics", "printGridSummary", "CheckGuardCells", "PrintMainPICparameters">>
    \o (IF chkfile = ""
        THEN <<"ComputeSpaceChargeField", "FilterComputePackFlush">>
             \o (IF "m_plot_rd" \in opts THEN <<"ComputeDiags", "WriteToFile">> ELSE <<>>)
        ELSE <<>>)
    \o <<"PerformanceHints">>

\* The statement InitData executes next, "" past its last one.
NextStatement ==
    LET prog == InitDataSteps(restart_chkfile, init_opts) IN
      IF Len(init_steps) < Len(prog) THEN prog[Len(init_steps) + 1] ELSE ""

\* CheckGuardCells(mf): the boxes of mf, in order, that fail vc.allGT(gc).
FailingBoxes(mf) == {b \in 1..Len(mf.vc) : ~AllGT(mf.vc[b], mf.gc)}

FirstFailingBox(mf) == CHOOSE b \in FailingBoxes(mf) : \A c \in FailingBoxes(mf) : b <= c

\* The text CheckGuardCells(mf) hands to amrex::Abort.
GuardCellMessage(tag, gc, vc) ==
    <<"\nMultiFab ", tag, ":\nthe number of guard cells ", ToString(gc),
      " is larger than or equal to the number of valid cells ", ToString(vc),
      ",\nplease reduce the number of guard cells",
      " or increase the grid size by changing domain decomposition">>

\* A statement of InitData other than CheckGuardCells.
InitDataStatement ==
    /\ init_pc \in {"start", "running"}
    /\ NextStatement \notin {"", "CheckGuardCells"}
    /\ init_steps' = Append(init_steps, NextStatement)
    /\ init_pc' = "running"
    /\ UNCHANGED <<restart_chkfile, fft_do_time_averaging, init_opts, fabs, abort_msgs>>
    /\ UNCHANGED <<varsCoarsen, varsStep, varsDeposit, varsPush, varsPsatd, varsLate>>

\* WarpX::CheckGuardCells(): the MultiFabs in order, each box in order; the
\* first box whose valid cells do not exceed the guard cells aborts the run.
CheckGuardCells ==
    /\ init_pc \in {"start", "running"}
    /\ NextStatement = "CheckGuardCells"
    /\ init_steps' = Append(init_steps, "CheckGuardCells")
    /\ \E order \in {CheckedFabs(fft_do_time_averaging, DOMAIN fabs)} :
       \E failing \in {{i \in 1..Len(order) : FailingBoxes(fabs[order[i]]) # {}}} :
         IF failing = {}
         THEN /\ init_pc' = "running"
              /\ UNCHANGED abort_msgs
         ELSE \E i \in failing :
                /\ \A k \in failing : i <= k
                /\ init_pc' = "aborted"
                /\ abort_msgs' = Append(abort_msgs,
                       GuardCellMessage(order[i], fabs[order[i]].gc,
                                        fabs[order[i]].vc[FirstFailingBox(fabs[order[i]])]))
    /\ UNCHANGED <<restart_chkfile, fft_do_time_averaging, init_opts, fabs>>
    /\ UNCHANGED <<varsCoarsen, varsStep, varsDeposit, varsPush, varsPsatd, varsLate>>

\* InitData returns; the timesteps of the run come after it.
InitDataReturns ==
    /\ init_pc = "running"
    /\ NextStatement = ""
    /\ init_pc' = "done"
    /\ UNCHANGED <<restart_chkfile, fft_do_time_averaging, init_opts, fabs, init_steps,
                   abort_msgs>>
    /\ UNCHANGED <<varsCoarsen, varsStep, varsDeposit, varsPush, varsPsatd, varsLate>>

NextInitData ==
    \/ InitDataStatement
    \/ CheckGuardCells
    \/ InitDataReturns

SpecInitData == InitInitData /\ [][NextInitData]_vars

\* Positions of a step in the steps executed.
StepIndex(name) == {i \in 1..Len(init_steps) : init_steps[i] = name}
Executed(name) == StepIndex(name) # {}
Before(a, b) == \A j \in StepIndex(b) : \E i \in StepIndex(a) : i < j

\* C17: CheckGuardCells runs after the levels (InitFromScratch, or
\* InitFromCheckpoint and PostRestart on a restart) and the diagnostics are
\* initialized, before the initial diagnostics are written and before
\* InitData returns to the timesteps; it runs at most once, and when it
\* aborts it is the last step executed and one message was emitted.
C17_CheckedEagerly ==
    /\ Executed("CheckGuardCells")
         => /\ Executed("InitDiagnostics") /\ Before("InitDiagnostics", "CheckGuardCells")
            /\ IF restart_chkfile = ""
               THEN Executed("InitFromScratch") /\ Before("InitFromScratch", "CheckGuardCells")
               ELSE /\ Executed("InitFromCheckpoint") /\ Executed("PostRestart")
                    /\ Before("InitFromCheckpoint", "CheckGuardCells")
                    /\ Before("PostRestart", "CheckGuardCells")
    /\ \A later \in {"FilterComputePackFlush", "WriteToFile"} :
         Executed(later) => Executed("CheckGuardCells") /\ Before("CheckGuardCells", later)
    /\ (init_pc = "done") => Executed("CheckGuardCells")
    /\ Cardinality(StepIndex("CheckGuardCells")) <= 1
    /\ (init_pc = "aborted")
         => /\ init_steps[Len(init_steps)] = "CheckGuardCells"
            /\ Len(abort_msgs) = 1
            /\ ~ENABLED NextInitData

\* C17 witness: a restart aborted by CheckGuardCells after the checkpoint
\* was read and the diagnostics were initialized.
C17_Witness ==
    /\ init_pc = "aborted" /\ restart_chkfile # ""
    /\ Executed("PostRestart") /\ Executed("InitDiagnostics")
    /\ init_steps[Len(init_steps)] = "CheckGuardCells"

C18_AllFabsChecked ==
    (init_pc = "done") => \A t \in DOMAIN fabs : FailingBoxes(fabs[t]) = {}

\* The tokens of an abort message that are the tag of a field MultiFab.
NamedFields(message) == {i \in 1..Len(message) : message[i] \in FieldTags}

\* C16 (as stated): a run that ends on a fatal configuration error has
\* emitted one message, and the message names the offending field: the
\* assertion message of CoarsenIO (a single literal) as well as the message
\* CheckGuardCells builds.
C16_MessageNamesField ==
    /\ (pc = "abort") => (msg # "" /\ NamedFields(<<msg>>) # {})
    /\ (init_pc = "aborted")
         => (Len(abort_msgs) = 1 /\ NamedFields(abort_msgs[1]) # {})

(***************************************************************************)
(* Part VII: WarpX::PostProcessBaseGrids (two space dimensions).           *)
(*                                                                         *)
(* numprocs is 0 on every axis when the input gives none, else positive on *)
(* every axis.                                                             *)
(***************************************************************************)
IdleEarly ==
    IdleCoarsen /\ IdleStep /\ IdleDeposit /\ IdlePush /\ IdlePsatd /\ IdleInitData

InitGrids ==
    /\ \E domlo \in {0 - 1, 0} \X {0 - 1, 0}, domlen \in (1..MaxDomLen) \X (1..MaxDomLen) :
         dom = Box(domlo, IVSub(IVAdd(domlo, domlen), IVAll(1)), Cell)
    /\ numprocs \in {IVAll(0)} \cup ((1..MaxProcs) \X (1..MaxProcs))
    /\ ba0 = <<dom>>
    /\ grids_pc = "start"
    /\ IdleEarly /\ IdleMaxStep /\ IdleBTD /\ IdleContainer

\* Mutation of BlockLo: the extra cells are not handed out.
BlockLoEven(i, sz, extra) == i * sz

\* ilo, jlo before domlo is added: the first extra blocks have sz+1 cells.
BlockLo(i, sz, extra) == IF i < extra THEN i * (sz + 1) ELSE i * sz + extra

\* ihi, jhi before domlo is added.
BlockHi(i, sz, extra) ==
    IF i < extra THEN BlockLo(i, sz, extra) + (sz + 1) - 1 ELSE BlockLo(i, sz, extra) + sz - 1

\* The BoxList the loops push: j outer, i inner.
BaseGrids(domlo, sz, extra, np) ==
    [n \in 1..(np[1] * np[2]) |->
        Box(<<BlockLo((n - 1) % np[1], sz[1], extra[1]) + domlo[1],
              BlockLo((n - 1) \div np[1], sz[2], extra[2]) + domlo[2]>>,
            <<BlockHi((n - 1) % np[1], sz[1], extra[1]) + domlo[1],
              BlockHi((n - 1) \div np[1], sz[2], extra[2]) + domlo[2]>>, Cell)]

PostProcessBaseGrids ==
    /\ grids_pc = "start"
    /\ grids_pc' = "done"
    /\ IF numprocs # IVAll(0)
       THEN LET domlen == BoxSize(dom)
                sz == <<domlen[1] \div numprocs[1], domlen[2] \div numprocs[2]>>
                extra == IVSub(domlen, IVMul(sz, numprocs))
            IN  ba0' = BaseGrids(dom.lo, sz, extra, numprocs)
       ELSE UNCHANGED ba0
    /\ UNCHANGED <<dom, numprocs>>
    /\ UNCHANGED <<varsEarly, varsMaxStep, varsBTD, varsContainer>>

SpecGrids == InitGrids /\ [][PostProcessBaseGrids]_vars

\* Cells of block i of n along an axis of len cells: the first (len mod n)
\* blocks have one more than floor(len/n).
BlockCells(len, n, i) == (len \div n) + (IF i < len % n THEN 1 ELSE 0)

\* C21: with numprocs given, the base grids are numprocs[0]*numprocs[1] boxes,
\* pairwise disjoint, that cover the domain exactly; block i along an axis
\* has BlockCells cells and starts where block i-1 ends, block 0 at the lower
\* end of the domain.
C21_BlocksTileDomain ==
    (grids_pc = "done" /\ numprocs # IVAll(0))
        => /\ Len(ba0) = numprocs[1] * numprocs[2]
           /\ \A m, n \in 1..Len(ba0) : m # n => BoxPts(ba0[m]) \cap BoxPts(ba0[n]) = {}
           /\ UNION {BoxPts(ba0[n]) : n \in 1..Len(ba0)} = BoxPts(dom)
           /\ \A n \in 1..Len(ba0) : \A d \in Axes :
                LET i == IF d = 1 THEN (n - 1) % numprocs[1] ELSE (n - 1) \div numprocs[1]
                    len == BoxSize(dom)[d]
                IN  /\ BoxSize(ba0[n])[d] = BlockCells(len, numprocs[d], i)
                    /\ ba0[n].lo[d] = IF i = 0 THEN dom.lo[d]
                                      ELSE ba0[n - (IF d = 1 THEN 1 ELSE numprocs[1])].hi[d] + 1

\* C21 witness: an uneven split along both axes.
C21_Witness ==
    /\ grids_pc = "done" /\ Len(ba0) = numprocs[1] * numprocs[2]
    /\ \A d \in Axes : numprocs[d] > 1 /\ BoxSize(dom)[d] % numprocs[d] # 0
                       /\ BoxSize(dom)[d] > numprocs[d]

(***************************************************************************)
(* Part VIII: WarpX::ComputeMaxStep, do_compute_max_step_from_zmax off.    *)
(*                                                                         *)
(* amrex::Real is a binary floating-point type: a significand of           *)
(* MantissaBits bits, results rounded to nearest, ties to even.  A real is *)
(* kept as an integer number of units of 2^-FractionBits.                  *)
(***************************************************************************)
RealUnit == 2 ^ FractionBits

\* n/d (d > 0) rounded to the nearest integer, ties to even.
RoundHalfEven(n, d) ==
    LET q == n \div d
        r == n - q * d
    IN  IF 2 * r > d \/ (2 * r = d /\ q % 2 = 1) THEN q + 1 ELSE q

\* The real nearest to n/d units (d > 0).
Fl(n, d) ==
    LET a == IF n < 0 THEN 0 - n ELSE n
        j == CHOOSE i \in 0..(2 * MantissaBits) :
                /\ a < (2 ^ MantissaBits) * (2 ^ i) * d
                /\ \A h \in 0..(i - 1) : a >= (2 ^ MantissaBits) * (2 ^ h) * d
    IN  RoundHalfEven(n, d * (2 ^ j)) * (2 ^ j)

\* t_new[0] + dt[0]*(max_step - istep[0])
StopBound(c, steps) ==
    Fl(c.t_new + Fl(c.dt * Fl((steps - c.istep) * RealUnit, 1), RealUnit), 1)

\* std::ceil of a real, as an integer.
Ceil(x) == 0 - ((0 - x) \div RealUnit)

\* static_cast<int>(istep[0] + std::ceil((stop_time - t_new[0]) / dt[0]))
StepBound(c) ==
    Fl((c.istep + Ceil(Fl(Fl(c.stop_time - c.t_new, 1) * RealUnit, c.dt))) * RealUnit, 1)
        \div RealUnit

InitMaxStep ==
    /\ clock \in {c \in [max_step : 0..MaxMaxStep, stop_time : 0..MaxStopUnits, t_new : 0..MaxDtUnits,
                         dt : 1..MaxDtUnits, istep : 0..1] :
                    c.stop_time = Fl(c.stop_time, 1)}
    /\ clock_prev = clock
    /\ ncompute = 0
    /\ IdleEarly /\ IdleGrids /\ IdleBTD /\ IdleContainer

ComputeMaxStepResult(c) ==
    IF c.stop_time > StopBound(c, c.max_step)
    THEN [c EXCEPT !.stop_time = StopBound(c, c.max_step)]
    ELSE [c EXCEPT !.max_step = StepBound(c)]

ComputeMaxStep ==
    /\ ncompute < MaxCompute
    /\ clock_prev' = clock
    /\ clock' = ComputeMaxStepResult(clock)
    /\ ncompute' = ncompute + 1
    /\ UNCHANGED <<varsEarly, varsGrids, varsBTD, varsContainer>>

SpecMaxStep == InitMaxStep /\ [][ComputeMaxStep]_vars

\* C22 (as stated): after a call stop_time <= t_new + dt*(max_step - istep) and
\* t_new + dt*(max_step - istep - 1) < stop_time, neither max_step nor
\* stop_time is larger than before the call, and a second call changes
\* nothing.
C22_SelfConsistent ==
    (ncompute >= 1)
        => /\ clock.stop_time <= StopBound(clock, clock.max_step)
           /\ StopBound(clock, clock.max_step - 1) < clock.stop_time
           /\ clock.max_step <= clock_prev.max_step
           /\ clock.stop_time <= clock_prev.stop_time
           /\ (ncompute >= 2) => clock = clock_prev

(***************************************************************************)
(* Part IX: BTDiagnostics (Diagnostics/BTDiagnostics.cpp).                 *)
(*                                                                         *)
(* Whether the current z-slice of a snapshot lies in the domain, and       *)
(* whether its index is 0, are computed from floating-point positions:     *)
(* they are inputs of every time step.                                     *)
(***************************************************************************)
Snapshots == 0..(NSnapshots - 1)

\* DerivedInitData, InitializeBufferData, InitializeParticleBuffer.
InitBTD ==
    /\ m_snapshot_full = [i \in Snapshots |-> 0]
    /\ m_lastValidZSlice = [i \in Snapshots |-> 0]
    /\ m_buffer_counter = [i \in Snapshots |-> 0]
    /\ m_buffer_flush_counter = [i \in Snapshots |-> 0]
    /\ m_totalParticles_in_buffer = [i \in Snapshots |-> 0]
    /\ m_totalParticles_flushed_already = [i \in Snapshots |-> 0]
    /\ m_particles_buffer = [i \in Snapshots |-> {}]
    /\ flush_log = [i \in Snapshots |-> <<>>]
    /\ \E species \in BOOLEAN :
         btd = [step |-> 0 - 1, force_flush |-> FALSE, pc |-> "pack", i_buffer |-> 0,
                species |-> species]
    /\ IdleEarly /\ IdleGrids /\ IdleMaxStep /\ IdleContainer

buffer_full(i) == m_buffer_counter[i] = BufferSize

buffer_empty(i) == m_buffer_counter[i] = 0

\* Mutation of DoDump: a dump at the initialization call too.
DoDumpAtInit(stp, i, force) ==
    IF m_snapshot_full[i] = 1 THEN FALSE
    ELSE IF buffer_full(i) \/ m_lastValidZSlice[i] = 1 THEN TRUE
    ELSE IF force /\ ~buffer_empty(i) THEN TRUE
    ELSE FALSE

\* Mutation of DoDump: a full snapshot is dumped again.
DoDumpFullSnapshot(stp, i, force) ==
    IF stp < 0 THEN FALSE
    ELSE IF buffer_full(i) \/ m_lastValidZSlice[i] = 1 THEN TRUE
    ELSE IF force /\ ~buffer_empty(i) THEN TRUE
    ELSE FALSE

DoDump(stp, i, force) ==
    IF stp < 0 THEN FALSE
    ELSE IF m_snapshot_full[i] = 1 THEN FALSE
    ELSE IF buffer_full(i) \/ m_lastValidZSlice[i] = 1 THEN TRUE
    ELSE IF force /\ ~buffer_empty(i) THEN TRUE
    ELSE FALSE

DoComputeAndPack(stp, force) ==
    IF stp < 0 THEN FALSE ELSE IF force THEN FALSE ELSE TRUE

\* The particles a time step adds to the buffer of snapshot i.
NewParticles(stp, i, n) == {<<i, stp, k>> : k \in 1..n}

\* UpdateBufferData, then the particle functors: each leaves in
\* m_totalParticles_in_buffer the number of particles of its buffer.
ComputeAndPack ==
    /\ btd.pc = "pack"
    /\ IF DoComputeAndPack(btd.step, btd.force_flush)
       THEN \E ZSliceInDomain \in SUBSET Snapshots, atZero \in SUBSET Snapshots,
               np \in [Snapshots -> 0..MaxNewParticles] :
              /\ m_buffer_counter' =
                    [i \in Snapshots |-> IF i \in ZSliceInDomain
                                         THEN m_buffer_counter[i] + 1
                                         ELSE m_buffer_counter[i]]
              /\ m_lastValidZSlice' =
                    [i \in Snapshots |-> IF i \in atZero THEN 1 ELSE m_lastValidZSlice[i]]
              /\ \A i \in Snapshots :
                    (btd.species /\ i \in ZSliceInDomain /\ m_snapshot_full[i] = 0)
                        \/ np[i] = 0
              /\ m_particles_buffer' =
                    [i \in Snapshots |->
                        m_particles_buffer[i] \cup NewParticles(btd.step, i, np[i])]
              /\ m_totalParticles_in_buffer' =
                    [i \in Snapshots |->
                        IF btd.species /\ i \in ZSliceInDomain /\ m_snapshot_full[i] = 0
                        THEN Cardinality(m_particles_buffer'[i])
                        ELSE m_totalParticles_in_buffer[i]]
       ELSE UNCHANGED <<m_buffer_counter, m_lastValidZSlice, m_particles_buffer,
                        m_totalParticles_in_buffer>>
    /\ btd' = [btd EXCEPT !.pc = "dump", !.i_buffer = 0]
    /\ UNCHANGED <<m_snapshot_full, m_buffer_flush_counter,
                   m_totalParticles_flushed_already, flush_log>>
    /\ UNCHANGED <<varsEarly, varsGrids, varsMaxStep, varsContainer>>

\* Mutation of SetSnapshotFullStatus: every flush closes the snapshot.
SetSnapshotFullAlways(full, last) == 1

\* m_snapshot_full[i_buffer] after SetSnapshotFullStatus(i_buffer).
SetSnapshotFullStatus(full, last) ==
    IF full = 1 THEN full ELSE IF last = 1 THEN 1 ELSE full

\* Mutation of UpdateTotalParticlesFlushed: the total is overwritten.
UpdateTotalParticlesOverwritten(flushed, inbuf) == inbuf

UpdateTotalParticlesFlushed(flushed, inbuf) == flushed + inbuf

\* Flush(i_buffer) where DoDump holds, for the snapshot the loop of the
\* driver is at.
Flush ==
    /\ btd.pc = "dump"
    /\ btd.i_buffer < NSnapshots
    /\ LET i == btd.i_buffer
           full == SetSnapshotFullStatus(m_snapshot_full[i], m_lastValidZSlice[i])
       IN  IF DoDump(btd.step, i, btd.force_flush)
           THEN /\ m_snapshot_full' = [m_snapshot_full EXCEPT ![i] = full]
                /\ flush_log' =
                      [flush_log EXCEPT ![i] =
                          Append(@, [isLastBTDFlush |-> (full = 1),
                                     count |-> IF btd.species
                                               THEN m_totalParticles_in_buffer[i] ELSE 0,
                                     particles |-> IF btd.species
                                                   THEN m_particles_buffer[i] ELSE {},
                                     at |-> btd.step])]
                /\ m_buffer_counter' = [m_buffer_counter EXCEPT ![i] = 0]
                /\ m_buffer_flush_counter' = [m_buffer_flush_counter EXCEPT ![i] = @ + 1]
                /\ IF btd.species
                   THEN /\ m_totalParticles_flushed_already' =
                              [m_totalParticles_flushed_already EXCEPT ![i] =
                                  UpdateTotalParticlesFlushed(@, m_totalParticles_in_buffer[i])]
                        /\ m_totalParticles_in_buffer' =
                              [m_totalParticles_in_buffer EXCEPT ![i] = 0]
                        /\ m_particles_buffer' = [m_particles_buffer EXCEPT ![i] = {}]
                   ELSE UNCHANGED <<m_totalParticles_flushed_already,
                                    m_totalParticles_in_buffer, m_particles_buffer>>
           ELSE UNCHANGED <<m_snapshot_full, flush_log, m_buffer_counter,
                            m_buffer_flush_counter, m_totalParticles_flushed_already,
                            m_totalParticles_in_buffer, m_particles_buffer>>
    /\ btd' = [btd EXCEPT !.i_buffer = @ + 1]
    /\ UNCHANGED m_lastValidZSlice
    /\ UNCHANGED <<varsEarly, varsGrids, varsMaxStep, varsContainer>>

\* The next time step, or the forced flush that ends the run.
FilterComputePackFlush ==
    /\ btd.pc = "dump"
    /\ btd.i_buffer = NSnapshots
    /\ \/ /\ ~btd.force_flush
          /\ btd.step < MaxBTDSteps
          /\ btd' = [btd EXCEPT !.step = @ + 1, !.pc = "pack"]
       \/ /\ ~btd.force_flush
          /\ btd.step >= 0
          /\ btd' = [btd EXCEPT !.force_flush = TRUE, !.pc = "pack"]
       \/ /\ btd.force_flush
          /\ btd' = [btd EXCEPT !.pc = "done"]
    /\ UNCHANGED <<m_snapshot_full, m_lastValidZSlice, m_buffer_counter,
                   m_buffer_flush_counter, m_totalParticles_in_buffer,
                   m_totalParticles_flushed_already, m_particles_buffer, flush_log>>
    /\ UNCHANGED <<varsEarly, varsGrids, varsMaxStep, varsContainer>>

NextBTD == ComputeAndPack \/ Flush \/ FilterComputePackFlush

SpecBTD == InitBTD /\ [][NextBTD]_vars

\* C24: DoDump(step, i_buffer, force_flush) is true exactly when step >= 0,
\* the snapshot is not full, and the buffer is full, or the last valid
\* z-slice is filled, or the flush is forced and the buffer is not empty.
C24_DoDumpExactly ==
    \A i \in Snapshots, stp \in (0 - 1)..MaxBTDSteps, force \in BOOLEAN :
        DoDump(stp, i, force)
            <=> /\ stp >= 0
                /\ m_snapshot_full[i] # 1
                /\ \/ m_buffer_counter[i] = BufferSize
                   \/ m_lastValidZSlice[i] = 1
                   \/ force /\ m_buffer_counter[i] # 0

\* The forced flush reaches a snapshot whose buffer is neither empty nor full
\* and whose last valid z-slice is not filled.
C24_Witness ==
    /\ btd.pc = "dump" /\ btd.force_flush /\ btd.i_buffer < NSnapshots
    /\ m_snapshot_full[btd.i_buffer] = 0 /\ m_lastValidZSlice[btd.i_buffer] = 0
    /\ m_buffer_counter[btd.i_buffer] > 0 /\ m_buffer_counter[btd.i_buffer] < BufferSize
    /\ DoDump(btd.step, btd.i_buffer, TRUE) /\ ~DoDump(btd.step, btd.i_buffer, FALSE)
    /\ \E j \in Snapshots : m_snapshot_full[j] = 1 /\ m_buffer_counter[j] > 0

\* The flushes of snapshot i that were its last (isLastBTDFlush).
FinalFlushes(i) == {k \in 1..Len(flush_log[i]) : flush_log[i][k].isLastBTDFlush}

\* C25: a snapshot has at most one final flush; after it m_snapshot_full is
\* 1, DoDump is false at every step, forced or not, and no further flush of
\* that snapshot happens.
C25_FinalFlushOnce ==
    \A i \in Snapshots :
        /\ Cardinality(FinalFlushes(i)) <= 1
        /\ \A k \in FinalFlushes(i) :
              /\ k = Len(flush_log[i])
              /\ m_snapshot_full[i] = 1
              /\ \A stp \in (0 - 1)..MaxBTDSteps, force \in BOOLEAN : ~DoDump(stp, i, force)

\* The run ended by a forced flush at a step after the final flush of a
\* snapshot whose buffer holds slices again.
C25_Witness ==
    /\ btd.pc = "done"
    /\ \E i \in Snapshots :
          /\ FinalFlushes(i) # {}
          /\ flush_log[i][Len(flush_log[i])].at < btd.step
          /\ m_buffer_counter[i] > 0
          /\ m_lastValidZSlice[i] = 1

\* C26: a full snapshot has its last valid z-slice filled; both flags are 0
\* at the start and never go back from 1 to 0.
C26_FullImpliesLastSlice ==
    /\ [](\A i \in Snapshots :
            /\ btd.step < 0 => m_snapshot_full[i] = 0 /\ m_lastValidZSlice[i] = 0
            /\ m_snapshot_full[i] = 1 => m_lastValidZSlice[i] = 1)
    /\ [][\A i \in Snapshots : /\ m_snapshot_full'[i] >= m_snapshot_full[i]
                               /\ m_lastValidZSlice'[i] >= m_lastValidZSlice[i]]_vars

\* One snapshot is full while another has its last valid z-slice filled and
\* was flushed before, without being full yet.
C26_Witness ==
    \E i, j \in Snapshots :
        /\ m_snapshot_full[i] = 1
        /\ m_lastValidZSlice[j] = 1 /\ m_snapshot_full[j] = 0
        /\ Len(flush_log[j]) > 0

RECURSIVE FlushedCount(_, _)
\* The sum of the in-buffer counts of the first k flushes of snapshot i.
FlushedCount(i, k) ==
    IF k = 0 THEN 0 ELSE FlushedCount(i, k - 1) + flush_log[i][k].count

\* C27: a flush adds the in-buffer count to the flushed total, sets the
\* in-buffer count to 0 and empties the buffer; the total is the sum of the
\* counts at the flushes, never decreases, and no particle is in two flushes.
C27_FlushedTotals ==
    /\ [](\A i \in Snapshots :
            /\ m_totalParticles_flushed_already[i] = FlushedCount(i, Len(flush_log[i]))
            /\ \A k, l \in 1..Len(flush_log[i]) :
                  /\ flush_log[i][k].count = Cardinality(flush_log[i][k].particles)
                  /\ k # l => flush_log[i][k].particles \cap flush_log[i][l].particles = {})
    /\ [][\A i \in Snapshots :
            /\ m_totalParticles_flushed_already'[i] >= m_totalParticles_flushed_already[i]
            /\ (btd.species /\ Len(flush_log'[i]) > Len(flush_log[i]))
                  => /\ m_totalParticles_flushed_already'[i] =
                          m_totalParticles_flushed_already[i] + m_totalParticles_in_buffer[i]
                     /\ m_totalParticles_in_buffer'[i] = 0
                     /\ m_particles_buffer'[i] = {}]_vars

\* A snapshot was flushed twice, with particles in its buffer both times.
C27_Witness ==
    \E i \in Snapshots :
        /\ Len(flush_log[i]) >= 2
        /\ \A k \in 1..2 : flush_log[i][k].count > 0
        /\ m_totalParticles_flushed_already[i] >= 2

(***************************************************************************)
(* Part X: the runtime components of a WarpXParticleContainer              *)
(* (Particles/WarpXParticleContainer.H), 3D build.                         *)
(***************************************************************************)
\* PIdx::nattribs: w, ux, uy, uz.
nattribs == 4

\* The names callers register; "ux" is a compile-time attribute.
CompNames == {"ux", "opticalDepthQSR", "prev_x"}

\* The std::map m with m[name] = v assigned.
MapSet(m, name, v) == [n \in (DOMAIN m) \cup {name} |-> IF n = name THEN v ELSE m[n]]

NumRealComps(c) == nattribs + c.num_runtime_real

NumIntComps(c) == c.num_runtime_int

\* The container after construction: the compile-time attributes are
\* registered, no runtime component exists.
InitContainer ==
    /\ pcont = [particle_comps |-> [n \in {"w", "ux", "uy", "uz"} |->
                                       CASE n = "w" -> 0 [] n = "ux" -> 1
                                         [] n = "uy" -> 2 [] OTHER -> 3],
                particle_icomps |-> <<>>,
                particle_runtime_comps |-> <<>>,
                particle_runtime_icomps |-> <<>>,
                num_runtime_real |-> 0,
                num_runtime_int |-> 0,
                messages |-> <<>>]
    /\ pcont_prev = pcont
    /\ last_add = [op |-> "none", name |-> "", known |-> FALSE]
    /\ nadds = 0
    /\ IdleEarly /\ IdleGrids /\ IdleMaxStep /\ IdleBTD

\* amrex::ParticleContainer::AddRealComp(comm), AddIntComp(comm).
AddRealCompUnnamed(c) == [c EXCEPT !.num_runtime_real = @ + 1]

AddIntCompUnnamed(c) == [c EXCEPT !.num_runtime_int = @ + 1]

\* Mutation of AddRealComp: the name is not looked up.
AddRealCompNoLookup(c, name) ==
    AddRealCompUnnamed(
        [c EXCEPT !.particle_comps = MapSet(@, name, NumRealComps(c)),
                  !.particle_runtime_comps = MapSet(@, name, NumRealComps(c) - nattribs)])

\* Mutation of AddRealComp: the runtime index counts from 0 among the named
\* components.
AddRealCompOrdinal(c, name) ==
    IF name \notin DOMAIN c.particle_comps
    THEN AddRealCompUnnamed(
            [c EXCEPT !.particle_comps = MapSet(@, name, NumRealComps(c)),
                      !.particle_runtime_comps =
                          MapSet(@, name, Cardinality(DOMAIN c.particle_runtime_comps))])
    ELSE [c EXCEPT !.messages =
                      Append(@, name \o " already exists in particle_comps, not adding.")]

AddRealComp(c, name) ==
    IF name \notin DOMAIN c.particle_comps
    THEN AddRealCompUnnamed(
            [c EXCEPT !.particle_comps = MapSet(@, name, NumRealComps(c)),
                      !.particle_runtime_comps = MapSet(@, name, NumRealComps(c) - nattribs)])
    ELSE [c EXCEPT !.messages =
                      Append(@, name \o " already exists in particle_comps, not adding.")]

AddIntComp(c, name) ==
    IF name \notin DOMAIN c.particle_icomps
    THEN AddIntCompUnnamed(
            [c EXCEPT !.particle_icomps = MapSet(@, name, NumIntComps(c)),
                      !.particle_runtime_icomps = MapSet(@, name, NumIntComps(c) - 0)])
    ELSE [c EXCEPT !.messages =
                      Append(@, name \o " already exists in particle_icomps, not adding.")]

\* A call of AddRealComp(name) or AddIntComp(name).
AddNamedComp ==
    /\ nadds < MaxAdds
    /\ \E name \in CompNames, op \in {"real", "int"} :
          /\ pcont' = IF op = "real" THEN AddRealComp(pcont, name) ELSE AddIntComp(pcont, name)
          /\ last_add' = [op |-> op, name |-> name,
                          known |-> IF op = "real" THEN name \in DOMAIN pcont.particle_comps
                                    ELSE name \in DOMAIN pcont.particle_icomps]
    /\ pcont_prev' = pcont
    /\ nadds' = nadds + 1
    /\ UNCHANGED <<varsEarly, varsGrids, varsMaxStep, varsBTD>>

\* A call of the inherited AddRealComp(comm) or AddIntComp(comm).
AddUnnamedComp ==
    /\ nadds < MaxAdds
    /\ \E op \in {"real", "int"} :
          /\ pcont' = IF op = "real" THEN AddRealCompUnnamed(pcont)
                      ELSE AddIntCompUnnamed(pcont)
          /\ last_add' = [op |-> op, name |-> "", known |-> FALSE]
    /\ pcont_prev' = pcont
    /\ nadds' = nadds + 1
    /\ UNCHANGED <<varsEarly, varsGrids, varsMaxStep, varsBTD>>

NextContainer == AddNamedComp \/ AddUnnamedComp

SpecContainer == InitContainer /\ [][NextContainer]_vars

\* The registries and the component counts of a container.
Registered(c) == [c EXCEPT !.messages = <<>>]

\* C28: AddRealComp(name) and AddIntComp(name) with a registered name leave
\* the registries and the component counts as they were and print one
\* message; registering a name twice gives what registering it once gives.
C28_RegisteredNameAddsNothing ==
    /\ last_add.known
          => /\ Registered(pcont) = Registered(pcont_prev)
             /\ Len(pcont.messages) = Len(pcont_prev.messages) + 1
    /\ \A name \in CompNames :
          /\ Registered(AddRealComp(AddRealComp(pcont, name), name))
                = Registered(AddRealComp(pcont, name))
          /\ Registered(AddIntComp(AddIntComp(pcont, name), name))
                = Registered(AddIntComp(pcont, name))

\* A runtime real name is registered a second time, after unnamed components
\* were added too.
C28_Witness ==
    /\ last_add.known /\ last_add.op = "real"
    /\ last_add.name \in DOMAIN pcont.particle_runtime_comps
    /\ pcont.num_runtime_real > Cardinality(DOMAIN pcont.particle_runtime_comps)
    /\ DOMAIN pcont.particle_runtime_icomps # {}

\* C29: distinct runtime names have distinct indices, every registered index
\* is below the number of components, particle_runtime_comps[name] is
\* particle_comps[name] - PIdx::nattribs, and the two int indices are equal.
C29_RegistryConsistent ==
    LET rc == pcont.particle_runtime_comps
        ric == pcont.particle_runtime_icomps
    IN  /\ DOMAIN rc \subseteq DOMAIN pcont.particle_comps
        /\ DOMAIN ric \subseteq DOMAIN pcont.particle_icomps
        /\ \A n1, n2 \in DOMAIN rc : n1 # n2 => rc[n1] # rc[n2]
        /\ \A n1, n2 \in DOMAIN ric : n1 # n2 => ric[n1] # ric[n2]
        /\ \A n \in DOMAIN pcont.particle_comps :
              pcont.particle_comps[n] >= 0 /\ pcont.particle_comps[n] < NumRealComps(pcont)
        /\ \A n \in DOMAIN pcont.particle_icomps :
              pcont.particle_icomps[n] >= 0 /\ pcont.particle_icomps[n] < NumIntComps(pcont)
        /\ \A n \in DOMAIN rc :
              /\ rc[n] = pcont.particle_comps[n] - nattribs
              /\ rc[n] >= 0 /\ rc[n] < pcont.num_runtime_real
        /\ \A n \in DOMAIN ric :
              /\ ric[n] = pcont.particle_icomps[n]
              /\ ric[n] < pcont.num_runtime_int

\* Two runtime real names with an unnamed component before the second, and
\* a runtime int name.
C29_Witness ==
    /\ Cardinality(DOMAIN pcont.particle_runtime_comps) = 2
    /\ \E n \in DOMAIN pcont.particle_runtime_comps : pcont.particle_runtime_comps[n] = 2
    /\ DOMAIN pcont.particle_runtime_icomps # {}

====
